---- MODULE Spec2Model ----
(***************************************************************************)
(* Concurrency primitives of the smart-chat-app backend:                   *)
(*   Semaphore / Mutex            (backend/store/threads.ts)               *)
(*   PriorityMessageQueue         (backend/utils/messageQueue.ts)          *)
(* Every async function is cut at its awaits: one action is the code that  *)
(* runs between two suspension points of the single-threaded event loop.   *)
(***************************************************************************)
EXTENDS Integers, Sequences, FiniteSets, TLC

\* ------------------------------------------------------------------ bounds
NCallers == 4        \* callers of the Semaphore / Mutex
Capacity == 2        \* initialPermits of the Semaphore under test
MaxSemOps == 7       \* calls made on the Semaphore in one behaviour
MaxMsgs == 3         \* messages submitted to the queue in one behaviour
CacheCap == 3        \* capacity of the LRUCache under test
NKeys == 4           \* keys used with the LRUCache
MaxCacheOps == 5     \* calls made on the LRUCache in one behaviour
MaxWorkers == 3      \* workers in the list of the RoundRobinScheduler at one time
NWorkerIds == 3      \* worker ids in use
MaxLoadCap == 2      \* largest maxLoad given to addWorker
MaxLbOps == 7        \* calls made on the RoundRobinScheduler in one behaviour
NProcs == 3          \* process ids used with the DeadlockDetector
NRes == 2            \* resource ids used with the DeadlockDetector
MaxDdOps == 6        \* calls made on the DeadlockDetector in one behaviour
NSocks == 3          \* sockets that connect in one behaviour
ConnCap == 2         \* permits of connectionSemaphore (100 in the program)
NUsers == 2          \* user ids in use
MaxCoOps == 6        \* socket events handled in one behaviour
MaxPasses == 2       \* send-message and broadcast-announcement events among them
ThreadCacheCap == 1  \* entries of threadCache (100 in the program)

Callers == 1 .. NCallers
NoOwner == 0         \* Mutex.owner === null

VARIABLES
  sem,        \* Semaphore: [permits, waitQueue]; waitQueue holds the suspended callers' resolve
  sPc,        \* per caller: "idle" | "waiting" (promise pending) | "holding"
  sSince,     \* history: the call number at which a waiting caller suspended
  sCount,     \* history: numbers of acquire, release, tryAcquire calls, of successful
              \* tryAcquire calls and of permits granted
  sLast,      \* history: the last call [op, caller, ret]
  mutex,      \* Mutex: [permits, waitQueue, owner]
  mPc,        \* per caller of lock(): "idle" | "suspended" | "granted" | "locked"
  mLast,      \* history: the last step [op, id, threw]
  queue,      \* PriorityMessageQueue: [queues, processing]
  sending,    \* the messages whose sendMessage() is awaited, one per running processQueue()
  now,        \* Date.now() as last read by a submitter
  qSub,       \* history: per submitted message [priority, timestamp, removedBefore]
  qEnq,       \* history: the last enqueue() [msg, after]: the buckets right after its sort
  qDeq,       \* history: the last dequeue() [msg, before]: the buckets it chose from
  qOrder,     \* history: message ids in the order of their first removal
  qFails,     \* history: per message id, failed deliveries
  qDelivered, \* history: per message id, successful deliveries
  qReports,   \* history: per message id, console.error reports of exhausted retries
  cache,      \* LRUCache: [capacity, node, head, tail, hits, misses]; node is the Map,
              \* key -> [value, prev, next], prev and next naming nodes by their key
  cHist,      \* history: the calls made on the cache [op, key, value, present, ret, evicted]
  lb,         \* RoundRobinScheduler: [workers, currentIndex], workers a sequence of
              \* [id, load, maxLoad, active]; currentIndex counts from 0 as in the source
  lbLast,     \* history: the last call [op, id, start, ret, threw, attempts]
  lbRun,      \* history: the assignTask() calls made in a row [fresh, start, rets]
  lbOps,      \* history: number of calls made on the scheduler
  dd,         \* DeadlockDetector: [resources, processes], the two Maps:
              \* resource id -> [holder, waitQueue], process id -> [holding, waiting]
  ddLast,     \* history: the last call [op, p, r, ret, held], held telling whether
              \* p was the holder of r when the call was made
  ddOps,      \* history: number of calls made on the detector
  co,         \* the socket module: [dd, lb, cache, sem, threads, heap, users, groups,
              \* socks]
  coLast,     \* history: what the last handler did [op, sock, sender, thread, error,
              \* enq, worker, released, emits, hit, replayed, history]
  coOps,      \* history: number of socket events handled
  coPasses    \* history: number of send-message and broadcast-announcement events
              \* handled

semVars == <<sem, sPc, sSince, sCount, sLast>>
mutexVars == <<mutex, mPc, mLast>>
queueVars == <<queue, sending, now, qSub, qEnq, qDeq, qOrder, qFails, qDelivered, qReports>>
cacheVars == <<cache, cHist>>
lbVars == <<lb, lbLast, lbRun, lbOps>>
ddVars == <<dd, ddLast, ddOps>>
coVars == <<co, coLast, coOps, coPasses>>
vars == <<semVars, mutexVars, queueVars, cacheVars, lbVars, ddVars, coVars>>

Range(s) == {s[i] : i \in DOMAIN s}

\* ------------------------------------------------------------- Semaphore
\* constructor(initialPermits)
Semaphore(initialPermits) == [permits |-> initialPermits, waitQueue |-> <<>>]

\* an acquire() that queues the caller's resolve in front of the waiters
acquireFront(s, c) ==
  IF s.permits > 0
    THEN [s EXCEPT !.permits = @ - 1]
    ELSE [s EXCEPT !.waitQueue = <<c>> \o @]

\* acquire(): takes a permit when one is free, otherwise queues the caller's resolve.
acquire(s, c) ==
  IF s.permits > 0
    THEN [s EXCEPT !.permits = @ - 1]
    ELSE [s EXCEPT !.waitQueue = Append(@, c)]

\* whether acquire() returns an already resolved promise
acquireImmediate(s) == s.permits > 0

\* a release() that returns the permit to the pool and resolves nobody
releaseToPool(s) == [sem |-> [s EXCEPT !.permits = @ + 1], resolved |-> {}]

\* a release() that resolves the newest waiter instead of the oldest
releaseLifo(s) ==
  IF Len(s.waitQueue) > 0
    THEN [sem |-> [s EXCEPT !.waitQueue = SubSeq(@, 1, Len(@) - 1)],
          resolved |-> {s.waitQueue[Len(s.waitQueue)]}]
    ELSE [sem |-> [s EXCEPT !.permits = @ + 1], resolved |-> {}]

\* a release() that increments permits also when it resolves a waiter
releaseAndIncrement(s) ==
  IF Len(s.waitQueue) > 0
    THEN [sem |-> [s EXCEPT !.waitQueue = Tail(@), !.permits = @ + 1],
          resolved |-> {Head(s.waitQueue)}]
    ELSE [sem |-> [s EXCEPT !.permits = @ + 1], resolved |-> {}]

\* release(): hands the permit to the oldest waiter, otherwise permits++.
release(s) ==
  IF Len(s.waitQueue) > 0
    THEN [sem |-> [s EXCEPT !.waitQueue = Tail(@)], resolved |-> {Head(s.waitQueue)}]
    ELSE [sem |-> [s EXCEPT !.permits = @ + 1], resolved |-> {}]

\* a tryAcquire() that takes a permit without the test permits > 0
tryAcquireBlind(s) == [sem |-> [s EXCEPT !.permits = @ - 1], ret |-> TRUE]

\* tryAcquire()
tryAcquire(s) ==
  IF s.permits > 0
    THEN [sem |-> [s EXCEPT !.permits = @ - 1], ret |-> TRUE]
    ELSE [sem |-> s, ret |-> FALSE]

availablePermits(s) == s.permits
getQueueLength(s) == Len(s.waitQueue)

SemInit ==
  /\ sem = Semaphore(Capacity)
  /\ sPc = [c \in Callers |-> "idle"]
  /\ sSince = [c \in Callers |-> 0]
  /\ sCount = [acq |-> 0, rel |-> 0, try |-> 0, tryOk |-> 0, grant |-> 0]
  /\ sLast = [op |-> "new", caller |-> 0, ret |-> FALSE]

SemCalls == sCount.acq + sCount.rel + sCount.try

\* a caller calls acquire()
SemAcquire(c) ==
  /\ sPc[c] = "idle"
  /\ SemCalls < MaxSemOps
  /\ sem' = acquire(sem, c)
  /\ sPc' = [sPc EXCEPT ![c] = IF acquireImmediate(sem) THEN "holding" ELSE "waiting"]
  /\ sSince' = [sSince EXCEPT ![c] = IF acquireImmediate(sem) THEN 0 ELSE SemCalls + 1]
  /\ sCount' = [sCount EXCEPT !.acq = @ + 1,
                              !.grant = IF acquireImmediate(sem) THEN @ + 1 ELSE @]
  /\ sLast' = [op |-> "acquire", caller |-> c, ret |-> acquireImmediate(sem)]

\* a caller that is not suspended calls release(); nothing in the code ties the
\* call to a permit the caller holds
SemRelease(c) ==
  /\ sPc[c] # "waiting"
  /\ SemCalls < MaxSemOps
  /\ LET r == release(sem) IN
       /\ sem' = r.sem
       /\ sPc' = [d \in Callers |->
                    IF d \in r.resolved THEN "holding"
                    ELSE IF d = c THEN "idle" ELSE sPc[d]]
       /\ sSince' = [d \in Callers |-> IF d \in r.resolved THEN 0 ELSE sSince[d]]
       /\ sCount' = [sCount EXCEPT !.rel = @ + 1,
                                   !.grant = @ + Cardinality(r.resolved)]
       /\ sLast' = [op |-> "release", caller |-> c, ret |-> r.resolved # {}]

\* a caller calls tryAcquire()
SemTryAcquire(c) ==
  /\ sPc[c] = "idle"
  /\ SemCalls < MaxSemOps
  /\ LET r == tryAcquire(sem) IN
       /\ sem' = r.sem
       /\ sPc' = [sPc EXCEPT ![c] = IF r.ret THEN "holding" ELSE "idle"]
       /\ sCount' = [sCount EXCEPT !.try = @ + 1,
                                   !.tryOk = IF r.ret THEN @ + 1 ELSE @,
                                   !.grant = IF r.ret THEN @ + 1 ELSE @]
       /\ sLast' = [op |-> "tryAcquire", caller |-> c, ret |-> r.ret]
  /\ UNCHANGED sSince

\* ------------------------------------------------------------------ Mutex
\* constructor(): super(1), owner = null
Mutex == [permits |-> 1, waitQueue |-> <<>>, owner |-> NoOwner]

\* an unlock() without the ownership test
unlockUnchecked(m, ownerId) ==
  LET r == release([m EXCEPT !.owner = NoOwner])
  IN [mutex |-> r.sem, resolved |-> r.resolved, threw |-> FALSE]

\* unlock(ownerId): throws for a non-owner, else owner = null; release()
unlock(m, ownerId) ==
  IF m.owner # ownerId
    THEN [mutex |-> m, resolved |-> {}, threw |-> TRUE]
    ELSE LET r == release([m EXCEPT !.owner = NoOwner])
         IN [mutex |-> r.sem, resolved |-> r.resolved, threw |-> FALSE]

getOwner(m) == m.owner

MutexInit ==
  /\ mutex = Mutex
  /\ mPc = [c \in Callers |-> "idle"]
  /\ mLast = [op |-> "new", id |-> NoOwner, threw |-> FALSE]

\* lock(ownerId) up to its await: the synchronous part of acquire()
MutexLock(c) ==
  /\ mPc[c] = "idle"
  /\ mutex' = acquire(mutex, c)
  /\ mPc' = [mPc EXCEPT ![c] = IF acquireImmediate(mutex) THEN "granted" ELSE "suspended"]
  /\ mLast' = [op |-> "lock", id |-> c, threw |-> FALSE]

\* lock(ownerId) after its await: this.owner = ownerId
MutexLockResume(c) ==
  /\ mPc[c] = "granted"
  /\ mutex' = [mutex EXCEPT !.owner = c]
  /\ mPc' = [mPc EXCEPT ![c] = "locked"]
  /\ mLast' = [op |-> "resume", id |-> c, threw |-> FALSE]

\* unlock(ownerId), called with any identity at any time
MutexUnlock(id) ==
  LET r == unlock(mutex, id) IN
    /\ mutex' = r.mutex
    /\ mPc' = [d \in Callers |->
                 IF d \in r.resolved THEN "granted"
                 ELSE IF d = id /\ ~r.threw THEN "idle" ELSE mPc[d]]
    /\ mLast' = [op |-> "unlock", id |-> id, threw |-> r.threw]

\* --------------------------------------------------- PriorityMessageQueue
URGENT == 1
HIGH == 2
NORMAL == 3
LOW == 4
Priorities == {URGENT, HIGH, NORMAL, LOW}
maxRetries == 3
NoMsg == [id |-> 0, priority |-> 0, timestamp |-> 0, retries |-> 0]

\* constructor(): four empty buckets, processing = false
PriorityMessageQueue == [queues |-> [p \in Priorities |-> <<>>], processing |-> FALSE]

\* Array.prototype.sort((a, b) => a.timestamp - b.timestamp): a stable sort
RECURSIVE sortByTimestamp(_)
sortByTimestamp(s) ==
  IF s = <<>> THEN <<>>
  ELSE LET front == sortByTimestamp(SubSeq(s, 1, Len(s) - 1))
           m == s[Len(s)]
           k == Cardinality({i \in DOMAIN front : front[i].timestamp <= m.timestamp})
       IN SubSeq(front, 1, k) \o <<m>> \o SubSeq(front, k + 1, Len(front))

\* an enqueue() that puts the message at the front before sorting: unshift()
\* for push()
pushFront(q, m) ==
  IF m.priority \in DOMAIN q.queues
    THEN [q EXCEPT !.queues[m.priority] = sortByTimestamp(<<m>> \o @)]
    ELSE q

\* an enqueue() that pushes without sorting
pushUnsorted(q, m) ==
  IF m.priority \in DOMAIN q.queues
    THEN [q EXCEPT !.queues[m.priority] = Append(@, m)]
    ELSE q

\* enqueue(), lines 36-41: push into the bucket of the priority, then sort it
push(q, m) ==
  IF m.priority \in DOMAIN q.queues
    THEN [q EXCEPT !.queues[m.priority] = sortByTimestamp(Append(@, m))]
    ELSE q

\* a dequeue() that returns the head of the bucket and leaves it there
dequeuePeek(q) ==
  LET ne == {p \in Priorities : Len(q.queues[p]) > 0} IN
    IF ne = {} THEN [q |-> q, msg |-> NoMsg]
    ELSE LET p == CHOOSE x \in ne : \A y \in ne : x <= y
         IN [q |-> q, msg |-> Head(q.queues[p])]

\* a dequeue() that scans the buckets from LOW to URGENT
dequeueLowFirst(q) ==
  LET ne == {p \in Priorities : Len(q.queues[p]) > 0} IN
    IF ne = {} THEN [q |-> q, msg |-> NoMsg]
    ELSE LET p == CHOOSE x \in ne : \A y \in ne : x >= y
         IN [q |-> [q EXCEPT !.queues[p] = Tail(@)], msg |-> Head(q.queues[p])]

\* a dequeue() that takes the newest message of the bucket: pop() for shift()
dequeuePop(q) ==
  LET ne == {p \in Priorities : Len(q.queues[p]) > 0} IN
    IF ne = {} THEN [q |-> q, msg |-> NoMsg]
    ELSE LET p == CHOOSE x \in ne : \A y \in ne : x <= y
         IN [q |-> [q EXCEPT !.queues[p] = SubSeq(@, 1, Len(@) - 1)],
             msg |-> q.queues[p][Len(q.queues[p])]]

\* dequeue(): shift() of the first non-empty bucket in the order URGENT .. LOW
dequeue(q) ==
  LET ne == {p \in Priorities : Len(q.queues[p]) > 0} IN
    IF ne = {} THEN [q |-> q, msg |-> NoMsg]
    ELSE LET p == CHOOSE x \in ne : \A y \in ne : x <= y
         IN [q |-> [q EXCEPT !.queues[p] = Tail(@)], msg |-> Head(q.queues[p])]

\* a loop that leaves processing set when it finds the buckets empty
drainTurnKeepsFlag(q) ==
  LET d == dequeue(q) IN
    IF d.msg = NoMsg
      THEN [q |-> q, sent |-> {}, deq |-> <<>>]
      ELSE [q |-> d.q, sent |-> {d.msg}, deq |-> <<[msg |-> d.msg, before |-> q.queues]>>]

\* processQueue(), lines 62-67 and 79: one turn of the loop from its top to the next
\* await, or to the end of the drain
drainTurn(q) ==
  LET d == dequeue(q) IN
    IF d.msg = NoMsg
      THEN [q |-> [q EXCEPT !.processing = FALSE], sent |-> {}, deq |-> <<>>]
      ELSE [q |-> d.q, sent |-> {d.msg}, deq |-> <<[msg |-> d.msg, before |-> q.queues]>>]

\* a processQueue() without the single-flight test
processQueueUnguarded(q) == drainTurn([q EXCEPT !.processing = TRUE])

\* processQueue(), lines 59-60: returns at once when a drain is running
processQueue(q) ==
  IF q.processing
    THEN [q |-> q, sent |-> {}, deq |-> <<>>]
    ELSE drainTurn([q EXCEPT !.processing = TRUE])

\* enqueue(message)
enqueue(q, m) ==
  LET pushed == push(q, m)
      r == processQueue(pushed)
  IN [q |-> r.q, sent |-> r.sent, deq |-> r.deq,
      enq |-> <<[msg |-> m, after |-> pushed.queues]>>]

\* a catch block that retries while retries <= maxRetries
onSendErrorOneMore(q, m) ==
  IF m.retries <= maxRetries
    THEN LET e == enqueue(q, [m EXCEPT !.retries = @ + 1])
         IN [q |-> e.q, sent |-> e.sent, deq |-> e.deq, enq |-> e.enq, reported |-> FALSE]
    ELSE [q |-> q, sent |-> {}, deq |-> <<>>, enq |-> <<>>, reported |-> TRUE]

\* a catch block that drops an exhausted message without reporting it
onSendErrorSilent(q, m) ==
  IF m.retries < maxRetries
    THEN LET e == enqueue(q, [m EXCEPT !.retries = @ + 1])
         IN [q |-> e.q, sent |-> e.sent, deq |-> e.deq, enq |-> e.enq, reported |-> FALSE]
    ELSE [q |-> q, sent |-> {}, deq |-> <<>>, enq |-> <<>>, reported |-> FALSE]

\* processQueue(), lines 68-76: the catch block of a failed sendMessage()
onSendError(q, m) ==
  IF m.retries < maxRetries
    THEN LET e == enqueue(q, [m EXCEPT !.retries = @ + 1])
         IN [q |-> e.q, sent |-> e.sent, deq |-> e.deq, enq |-> e.enq, reported |-> FALSE]
    ELSE [q |-> q, sent |-> {}, deq |-> <<>>, enq |-> <<>>, reported |-> TRUE]

QueueInit ==
  /\ queue = PriorityMessageQueue
  /\ sending = {}
  /\ now = 0
  /\ qSub = <<>>
  /\ qEnq = [msg |-> NoMsg, after |-> PriorityMessageQueue.queues]
  /\ qDeq = [msg |-> NoMsg, before |-> PriorityMessageQueue.queues]
  /\ qOrder = <<>>
  /\ qFails = <<>>
  /\ qDelivered = <<>>
  /\ qReports = <<>>

\* the history of a step that ran the enqueue() calls enqs and the dequeue() calls deqs
QueueHistory(enqs, deqs) ==
  /\ qEnq' = IF enqs = <<>> THEN qEnq ELSE enqs[Len(enqs)]
  /\ qDeq' = IF deqs = <<>> THEN qDeq ELSE deqs[Len(deqs)]
  /\ qOrder' = LET new == [i \in DOMAIN deqs |-> deqs[i].msg.id]
               IN qOrder \o SelectSeq(new, LAMBDA i : i \notin Range(qOrder))

\* a caller submits a new message of priority p, dt ms after the previous submit:
\* enqueue() and, when no drain runs, the drain up to its first await
QueueSubmit(p, dt) ==
  LET m == [id |-> Len(qSub) + 1, priority |-> p, timestamp |-> now + dt, retries |-> 0]
      e == enqueue(queue, m)
  IN /\ queue' = e.q
     /\ sending' = sending \cup e.sent
     /\ now' = now + dt
     /\ qSub' = Append(qSub, [priority |-> p, timestamp |-> now + dt,
                              removedBefore |-> Len(qOrder)])
     /\ QueueHistory(e.enq, e.deq)
     /\ qFails' = Append(qFails, 0)
     /\ qDelivered' = Append(qDelivered, 0)
     /\ qReports' = Append(qReports, 0)

\* sendMessage(m) resolves: the drain goes on to its next turn
QueueSendResolved(m) ==
  LET t == drainTurn(queue)
  IN /\ m \in sending
     /\ queue' = t.q
     /\ sending' = (sending \ {m}) \cup t.sent
     /\ qDelivered' = [qDelivered EXCEPT ![m.id] = @ + 1]
     /\ QueueHistory(<<>>, t.deq)
     /\ UNCHANGED <<now, qSub, qFails, qReports>>

\* sendMessage(m) rejects: the catch block, then the drain's next turn
QueueSendRejected(m) ==
  LET c == onSendError(queue, m)
      t == drainTurn(c.q)
  IN /\ m \in sending
     /\ queue' = t.q
     /\ sending' = ((sending \ {m}) \cup c.sent) \cup t.sent
     /\ qFails' = [qFails EXCEPT ![m.id] = @ + 1]
     /\ qReports' = [qReports EXCEPT ![m.id] = IF c.reported THEN @ + 1 ELSE @]
     /\ QueueHistory(c.enq, c.deq \o t.deq)
     /\ UNCHANGED <<now, qSub, qDelivered>>

\* ------------------------------------------------------- Semaphore claims
Waiting == {c \in Callers : sPc[c] = "waiting"}

\* C1: for a Semaphore of capacity C, once C acquire() calls were made and no
\* release(), availablePermits() is 0 and every further acquire() suspends; every
\* release() made while callers are suspended resumes exactly one of them, the one
\* suspended longest.
C1_ExhaustThenFifo ==
  /\ [](sCount.rel = 0 /\ sCount.acq >= Capacity =>
          /\ availablePermits(sem) = 0
          /\ getQueueLength(sem) = sCount.acq + sCount.tryOk - Capacity
          /\ Cardinality(Waiting) = getQueueLength(sem))
  /\ [][sCount'.rel = sCount.rel + 1 /\ Waiting # {} =>
          \E w \in Waiting :
             /\ sPc'[w] = "holding"
             /\ \A d \in Waiting \ {w} : sPc'[d] = "waiting" /\ sSince[w] < sSince[d]]_vars
  /\ [][sCount'.acq = sCount.acq + 1 /\ sCount.rel = 0 /\ sCount.acq >= Capacity =>
          sPc'[sLast'.caller] = "waiting"]_vars

\* C1 witness: the first release() has just resumed a caller while another one,
\* suspended later, is still queued.
C1_Witness ==
  /\ sLast.op = "release" /\ sLast.ret
  /\ sCount.rel = 1
  /\ getQueueLength(sem) >= 1

\* C2: available stays within [0, C] and available plus the permits granted and not
\* yet released equals C (stated as the claim has it; release() has no upper bound).
C2_PermitsWithinCapacity ==
  /\ sem.permits \in 0 .. Capacity
  /\ sem.permits + (sCount.grant - sCount.rel) = Capacity

\* ----------------------------------------------------------- Mutex claims
\* C3: unlock(id) with an id that is not the owner throws and changes nothing:
\* permits, owner and wait queue are as before and no waiter is resumed.
C3_NonOwnerUnlockRejected ==
  [][mLast'.op = "unlock" /\ mLast'.id # mutex.owner =>
       /\ mLast'.threw
       /\ mutex' = mutex
       /\ mPc' = mPc]_vars

\* C3 witness: a non-owner's unlock has just thrown while the mutex is owned and a
\* caller is queued behind the owner.
C3_Witness ==
  /\ mLast.op = "unlock" /\ mLast.threw
  /\ mutex.owner \notin {NoOwner, mLast.id}
  /\ getQueueLength(mutex) >= 1

\* C4: at every step the owner is set if and only if availablePermits() == 0
\* (stated as the claim has it, the steps before lock() resumes included).
C4_OwnerIffLocked ==
  (getOwner(mutex) # NoOwner) <=> (availablePermits(mutex) = 0)

\* What does hold at every step: the owner is set exactly when the permit is taken
\* and no granted lock() is still waiting to resume.
MutexOwnerOnceResumed ==
  (getOwner(mutex) # NoOwner) <=>
    (availablePermits(mutex) = 0 /\ \A c \in Callers : mPc[c] # "granted")

\* ------------------------------------------- PriorityMessageQueue claims
InBuckets == UNION {Range(queue.queues[p]) : p \in Priorities}
DrainIdle == ~queue.processing /\ sending = {}
Restrict(s, S) == SelectSeq(s, LAMBDA i : i \in S)

\* C5: a failed message is re-submitted with retries + 1 while retries < 3, so at most
\* 3 times; failing with retries = 3 it is dropped and reported, once; a submit never
\* handles (or throws) a failure itself.
C5_RetryThenDrop ==
  /\ [](\A m \in InBuckets \cup sending : m.retries \in 0 .. maxRetries)
  /\ [][\A m \in sending :
          qFails'[m.id] = qFails[m.id] + 1 =>
            IF m.retries < maxRetries
              THEN /\ [m EXCEPT !.retries = @ + 1] \in InBuckets' \cup sending'
                   /\ qReports' = qReports
              ELSE /\ \A x \in InBuckets' \cup sending' : x.id # m.id
                   /\ qReports' = [qReports EXCEPT ![m.id] = @ + 1]]_vars
  /\ [][Len(qSub') = Len(qSub) + 1 =>
          /\ qFails' = Append(qFails, 0)
          /\ qReports' = Append(qReports, 0)]_vars

\* C5 witness: a message has failed with its counter at the limit and was reported.
C5_Witness ==
  \E i \in DOMAIN qSub :
    /\ qFails[i] = maxRetries + 1
    /\ qReports[i] = 1
    /\ \A x \in InBuckets \cup sending : x.id # i

\* C6 as claimed: 3 messages that fail exactly 3 times each are all dropped, with 3
\* reports and empty buckets once the drain has stopped.
C6_ThreeFailuresDropAll ==
  (Len(qSub) = 3 /\ DrainIdle /\ \A i \in 1 .. 3 : qFails[i] = 3) =>
    /\ \A i \in 1 .. 3 : qReports[i] = 1 /\ qDelivered[i] = 0
    /\ InBuckets = {}

\* C6 amended: 3 messages that fail on the first attempt and on each of the 3 retries
\* (4 failures each) are all dropped, with exactly 3 reports and empty buckets.
C6_FourFailuresDropAll ==
  (Len(qSub) = 3 /\ DrainIdle /\ \A i \in 1 .. 3 : qFails[i] = maxRetries + 1) =>
    /\ \A i \in 1 .. 3 : qReports[i] = 1 /\ qDelivered[i] = 0
    /\ InBuckets = {}

\* C6 witness: three messages, four failures each, and the drain has stopped.
C6_Witness ==
  Len(qSub) = 3 /\ DrainIdle /\ \A i \in 1 .. 3 : qFails[i] = maxRetries + 1

\* C7: at most one processQueue() is running, whatever submits and re-submits are
\* made at its suspension points, and the single-flight flag is set exactly then.
C7_SingleDrain ==
  /\ Cardinality(sending) <= 1
  /\ queue.processing <=> sending # {}

\* C7 witness: a drain is suspended in a send while the buckets hold a re-submitted
\* message and a message submitted during the drain.
C7_Witness ==
  /\ Cardinality(sending) = 1
  /\ \E m \in InBuckets : m.retries > 0
  /\ \E m \in InBuckets : m.retries = 0

\* the messages first .. first + 3 were submitted LOW, URGENT, NORMAL, URGENT at
\* strictly rising timestamps, and all four have been removed
OrderScenario(first) ==
  /\ Len(qSub) >= first + 3
  /\ [i \in 1 .. 4 |-> qSub[first + i - 1].priority] = <<LOW, URGENT, NORMAL, URGENT>>
  /\ \A i \in 1 .. 3 : qSub[first + i - 1].timestamp < qSub[first + i].timestamp
  /\ (first .. first + 3) \subseteq Range(qOrder)

\* none of the four had been removed when the last of them was submitted
QueuedTogether(first) ==
  \A k \in 1 .. qSub[first + 3].removedBefore : qOrder[k] \notin first .. first + 3

\* C8 as claimed: submitted to an idle queue, the four are removed in the order
\* URGENT@t2, URGENT@t4, NORMAL@t3, LOW@t1.
C8_IdleQueueOrder ==
  OrderScenario(1) => Restrict(qOrder, 1 .. 4) = <<2, 4, 3, 1>>

\* C8 amended: submitted while the drain is busy with an earlier message, so that all
\* four are queued before one of them is removed, they are first removed in the order
\* URGENT@t2, URGENT@t4, NORMAL@t3, LOW@t1.
C8_BusyQueueOrder ==
  (OrderScenario(2) /\ QueuedTogether(2)) => Restrict(qOrder, 2 .. 5) = <<3, 5, 4, 2>>

\* C8 witness: the four were queued together behind an earlier message and all removed.
C8_Witness == OrderScenario(2) /\ QueuedTogether(2)

\* C9: every removal takes the head of the highest-priority non-empty bucket, and a
\* message leaves the buckets in no other way; a queued LOW message therefore stays
\* behind every URGENT message submitted after it.
C9_StrictPriority ==
  /\ [](qDeq.msg # NoMsg =>
          /\ qDeq.before[qDeq.msg.priority] # <<>>
          /\ Head(qDeq.before[qDeq.msg.priority]) = qDeq.msg
          /\ \A h \in Priorities : h < qDeq.msg.priority => qDeq.before[h] = <<>>)
  /\ [][(InBuckets \ InBuckets') \subseteq {qDeq'.msg}]_vars

\* C9 witness: an URGENT message was just removed ahead of a LOW message that was
\* submitted before it and is still queued.
C9_Witness ==
  /\ qDeq.msg.priority = URGENT
  /\ \E l \in Range(queue.queues[LOW]) : l.id < qDeq.msg.id

BucketsOrdered(b) ==
  \A p \in Priorities :
    /\ \A i \in DOMAIN b[p] : b[p][i].priority = p
    /\ \A i, j \in DOMAIN b[p] : i < j => b[p][i].timestamp <= b[p][j].timestamp

\* C10: after every enqueue() each bucket holds only its own priority in ascending
\* timestamp order, the new message behind those of an equal timestamp and the rest
\* in the order they had; a submit made while no drain runs starts one.
C10_SortedBucketsAndStart ==
  /\ [](BucketsOrdered(qEnq.after) /\ BucketsOrdered(queue.queues))
  /\ [][qEnq' # qEnq =>
          LET m == qEnq'.msg
              before == queue.queues[m.priority]
              after == qEnq'.after[m.priority]
          IN /\ \E k \in 0 .. Len(before) :
                  /\ after = SubSeq(before, 1, k) \o <<m>> \o SubSeq(before, k + 1, Len(before))
                  /\ \A i \in k + 1 .. Len(before) : before[i].timestamp > m.timestamp
             /\ \A p \in Priorities \ {m.priority} : qEnq'.after[p] = queue.queues[p]]_vars
  /\ [][Len(qSub') = Len(qSub) + 1 /\ ~queue.processing =>
          queue'.processing /\ sending' # {}]_vars

\* C10 witness: the last enqueue() sorted its message in between one of an equal
\* timestamp, queued earlier, and one of a later timestamp.
C10_Witness ==
  LET a == qEnq.after[qEnq.msg.priority] IN
    /\ qEnq.msg # NoMsg
    /\ Len(a) >= 3
    /\ a[2] = qEnq.msg
    /\ a[1].timestamp = a[2].timestamp
    /\ a[3].timestamp > a[2].timestamp

\* ---------------------------------------------- Semaphore claims, continued
SemCalled(op) == SemCalls' = SemCalls + 1 /\ sLast'.op = op
\* the place of a suspended caller in the wait queue, 0 when it is not there
QueuePos(s, c) ==
  IF \E i \in DOMAIN s.waitQueue : s.waitQueue[i] = c
    THEN CHOOSE i \in DOMAIN s.waitQueue : s.waitQueue[i] = c
    ELSE 0

\* C24: release() with at least one suspended waiter resumes the oldest
\* waiter, and nobody else, and leaves permits unchanged; release() with no
\* waiter adds exactly one to permits and resumes nobody.
C24_ReleaseHandsOver ==
  [][SemCalled("release") =>
       IF Waiting # {}
         THEN LET w == Head(sem.waitQueue)
              IN /\ \A d \in Waiting \ {w} : sSince[w] < sSince[d]
                 /\ sPc[w] = "waiting" /\ sPc'[w] = "holding"
                 /\ \A d \in Waiting \ {w} : sPc'[d] = "waiting"
                 /\ sem'.permits = sem.permits
                 /\ sem'.waitQueue = Tail(sem.waitQueue)
         ELSE /\ sem'.permits = sem.permits + 1
              /\ sem'.waitQueue = <<>>
              /\ \A d \in Callers : sPc'[d] = "holding" => sPc[d] = "holding"]_vars

\* a release has just resumed the older of two waiters
C24_Witness ==
  /\ sLast.op = "release" /\ sLast.ret
  /\ Waiting # {}
  /\ sem.permits = 0

\* C25: tryAcquire() never suspends its caller and never joins the wait
\* queue: with permits > 0 it returns true and takes exactly one permit, with
\* permits = 0 it returns false and leaves permits and the wait queue as they
\* were.
C25_TryAcquireNeverWaits ==
  [][SemCalled("tryAcquire") =>
       /\ sPc'[sLast'.caller] # "waiting"
       /\ sem'.waitQueue = sem.waitQueue
       /\ IF sem.permits > 0
            THEN sLast'.ret /\ sem'.permits = sem.permits - 1
                 /\ sPc'[sLast'.caller] = "holding"
            ELSE ~sLast'.ret /\ sem' = sem
                 /\ sPc'[sLast'.caller] = "idle"]_vars

\* a tryAcquire() has just failed behind a suspended acquire(), after one
\* that succeeded
C25_Witness ==
  /\ sLast.op = "tryAcquire" /\ ~sLast.ret
  /\ Waiting # {}
  /\ sCount.tryOk >= 1

\* C26: a caller suspended in acquire() leaves the wait queue only as the
\* head of the queue of a release() call, which resumes it; every release()
\* moves each other waiter one place forward and no other call moves a waiter,
\* so the caller at place k is resumed by the k-th release() after it
\* suspended; while a caller waits, no acquire() or tryAcquire() gets a permit.
C26_ResumedByKthRelease ==
  /\ [](Waiting = Range(sem.waitQueue) /\ Cardinality(Waiting) = Len(sem.waitQueue))
  /\ [][\A c \in Waiting :
          IF SemCalled("release")
            THEN IF QueuePos(sem, c) = 1
                   THEN sPc'[c] = "holding" /\ QueuePos(sem', c) = 0
                   ELSE sPc'[c] = "waiting" /\ QueuePos(sem', c) = QueuePos(sem, c) - 1
            ELSE /\ sPc'[c] = "waiting" /\ QueuePos(sem', c) = QueuePos(sem, c)
                 /\ (SemCalled("acquire") \/ SemCalled("tryAcquire")) =>
                      ~sLast'.ret /\ sPc'[sLast'.caller] # "holding"]_vars

\* the caller that suspended second has been resumed by the second release,
\* a tryAcquire() having failed meanwhile
C26_Witness ==
  /\ sLast.op = "release" /\ sLast.ret
  /\ sCount.acq = Capacity + 2 /\ sCount.rel = 2 /\ sCount.grant = Capacity + 2
  /\ sCount.try = 1 /\ sCount.tryOk = 0
  /\ Waiting = {}

\* C38: whenever the wait queue of the semaphore is not empty, permits is 0:
\* no caller is left suspended while a permit is free
C38_NoWaiterWhilePermitFree == Len(sem.waitQueue) > 0 => sem.permits = 0

\* C38 witness: after a release(), a caller is suspended and a tryAcquire()
\* has just found no permit
C38_Witness ==
  /\ Len(sem.waitQueue) > 0
  /\ sCount.rel >= 1
  /\ sLast.op = "tryAcquire"
  /\ ~sLast.ret

\* ------------------------------- PriorityMessageQueue claims, continued
\* the number of entries the buckets hold for message id i
Queued(i) ==
  LET Count(p) == Cardinality({k \in DOMAIN queue.queues[p] : queue.queues[p][k].id = i})
  IN Count(URGENT) + Count(HIGH) + Count(NORMAL) + Count(LOW)

\* the number of sends awaited for message id i
InFlight(i) == Cardinality({m \in sending : m.id = i})

\* C35: every submitted message is in exactly one place: once in one
\* bucket, in flight in the drain, delivered once, or dropped with a report
C35_ExactlyOnePlace ==
  \A i \in DOMAIN qSub : Queued(i) + InFlight(i) + qDelivered[i] + qReports[i] = 1

\* C35 witness: of three messages one is delivered, one is dropped and
\* reported, and one is queued or in flight
C35_Witness ==
  \E i, j, k \in DOMAIN qSub :
    /\ qDelivered[i] = 1
    /\ qReports[j] = 1
    /\ Queued(k) + InFlight(k) = 1

\* C36: a bucket is non-empty only while a drain is running, and when every
\* send settles the drain comes to a stop with the four buckets empty and
\* processing false
C36_DrainCompletes ==
  /\ [](InBuckets # {} => queue.processing /\ sending # {})
  /\ <>[](InBuckets = {} /\ DrainIdle)

\* C36 witness: the drain has stopped with empty buckets after a send
\* failed and a message submitted during the drain overtook an earlier one
C36_Witness ==
  /\ DrainIdle
  /\ InBuckets = {}
  /\ \E i \in DOMAIN qSub : qFails[i] >= 1
  /\ \E a, b \in DOMAIN qOrder : a < b /\ qOrder[a] > qOrder[b]

\* the step re-submits message m after a failed send
Resubmitted(m) ==
  /\ m \in sending
  /\ qFails'[m.id] = qFails[m.id] + 1
  /\ qEnq' # qEnq
  /\ qEnq'.msg.id = m.id

\* the messages of m's priority submitted after m that are in the buckets
\* right after the sort of the re-submit
LaterQueued(m) ==
  {x \in Range(qEnq'.after[m.priority]) : x.id > m.id}

\* the place of message id i in bucket b
PlaceOf(b, i) == CHOOSE k \in DOMAIN b : b[k].id = i

\* C37 as claimed: a re-submitted message keeps its timestamp and is sorted
\* ahead of every message of its priority that was submitted after it
C37_ResubmitAheadOfLater ==
  [][\A m \in sending :
       Resubmitted(m) =>
         /\ qEnq'.msg.timestamp = qSub[m.id].timestamp
         /\ \A x \in LaterQueued(m) :
               PlaceOf(qEnq'.after[m.priority], m.id)
                 < PlaceOf(qEnq'.after[m.priority], x.id)]_vars

\* C37 amended: a re-submitted message keeps its timestamp and is sorted ahead
\* of every message of its priority with a later timestamp, and behind those
\* with the same or an earlier timestamp
C37_ResubmitAheadOfLaterStamp ==
  [][\A m \in sending :
       Resubmitted(m) =>
         /\ qEnq'.msg.timestamp = qSub[m.id].timestamp
         /\ \A x \in Range(qEnq'.after[m.priority]) :
               x.id # m.id =>
                 (PlaceOf(qEnq'.after[m.priority], m.id)
                    < PlaceOf(qEnq'.after[m.priority], x.id)
                  <=> x.timestamp > qSub[m.id].timestamp)]_vars

\* C37 witness: the last enqueue() re-submitted a message and sorted it
\* between a message of the same timestamp and one of a later timestamp,
\* both submitted after it
C37_Witness ==
  LET a == qEnq.after[qEnq.msg.priority] IN
    /\ qEnq.msg.retries >= 1
    /\ Len(a) = 3
    /\ a[2] = qEnq.msg
    /\ a[1].id > a[2].id /\ a[1].timestamp = a[2].timestamp
    /\ a[3].id > a[2].id /\ a[3].timestamp > a[2].timestamp

\* ---------------------------------------------------------------- LRUCache
\* accessCount and lastAccessed of a node are written and never read: left out.
Nil == 0
CacheKeys == 1 .. NKeys
CacheValues == {1, 2}

\* constructor(capacity)
LRUCache(capacity) ==
  [capacity |-> capacity, node |-> [k \in {} |-> Nil], head |-> Nil, tail |-> Nil,
   hits |-> 0, misses |-> 0]

\* the cache whose recency sequence is s, with the values of node map old
CacheOfSeq(c, s, old) ==
  [c EXCEPT !.node = [k \in Range(s) |->
                        LET i == CHOOSE j \in DOMAIN s : s[j] = k
                        IN [value |-> old[k].value,
                            prev |-> IF i = 1 THEN Nil ELSE s[i - 1],
                            next |-> IF i = Len(s) THEN Nil ELSE s[i + 1]]],
            !.head = IF s = <<>> THEN Nil ELSE s[1],
            !.tail = IF s = <<>> THEN Nil ELSE s[Len(s)]]

RECURSIVE WalkNext(_, _, _)
WalkNext(c, k, fuel) ==
  IF k = Nil \/ fuel = 0 \/ k \notin DOMAIN c.node THEN <<>>
  ELSE <<k>> \o WalkNext(c, c.node[k].next, fuel - 1)

RECURSIVE WalkPrev(_, _, _)
WalkPrev(c, k, fuel) ==
  IF k = Nil \/ fuel = 0 \/ k \notin DOMAIN c.node THEN <<>>
  ELSE <<k>> \o WalkPrev(c, c.node[k].prev, fuel - 1)

\* the keys from head along next, and from tail along prev
Recency(c) == WalkNext(c, c.head, NKeys + 1)
RecencyBack(c) == WalkPrev(c, c.tail, NKeys + 1)
Reverse(s) == [i \in 1 .. Len(s) |-> s[Len(s) + 1 - i]]
Without(s, k) == SelectSeq(s, LAMBDA x : x # k)

\* a moveToFront() that exchanges the node with the head
moveToFrontSwap(c, k) ==
  LET s == Recency(c)
      i == CHOOSE j \in DOMAIN s : s[j] = k
  IN CacheOfSeq(c, [j \in DOMAIN s |-> IF j = 1 THEN k ELSE IF j = i THEN s[1] ELSE s[j]],
                c.node)

\* moveToFront(node)
moveToFront(c, k) ==
  IF k = c.head THEN c
  ELSE LET n == c.node[k]
           n1 == IF n.prev # Nil THEN [c.node EXCEPT ![n.prev].next = n.next] ELSE c.node
           n2 == IF n.next # Nil THEN [n1 EXCEPT ![n.next].prev = n.prev] ELSE n1
           t3 == IF k = c.tail THEN n.prev ELSE c.tail
           n4 == [n2 EXCEPT ![k].prev = Nil, ![k].next = c.head]
           n5 == IF c.head # Nil THEN [n4 EXCEPT ![c.head].prev = k] ELSE n4
       IN [c EXCEPT !.node = n5, !.head = k, !.tail = IF t3 = Nil THEN k ELSE t3]

\* an evictLRU() that evicts the head, the most recently used entry
evictMRU(c) ==
  IF c.head = Nil THEN c
  ELSE LET h == c.head
           nx == c.node[h].next
           linked == IF nx # Nil
                       THEN [c EXCEPT !.node[nx].prev = Nil, !.head = nx]
                       ELSE [c EXCEPT !.head = Nil, !.tail = Nil]
       IN [linked EXCEPT !.node = [k \in DOMAIN linked.node \ {h} |-> linked.node[k]]]

\* evictLRU(): unlinks the tail and deletes its key from the Map
evictLRU(c) ==
  IF c.tail = Nil THEN c
  ELSE LET t == c.tail
           p == c.node[t].prev
           linked == IF p # Nil
                       THEN [c EXCEPT !.node[p].next = Nil, !.tail = p]
                       ELSE [c EXCEPT !.head = Nil, !.tail = Nil]
       IN [linked EXCEPT !.node = [k \in DOMAIN linked.node \ {t} |-> linked.node[k]]]

\* put(), lines 66-86: links a new node in front of the head
insertNew(c, k, v) ==
  [c EXCEPT !.node = [x \in DOMAIN c.node \cup {k} |->
                        IF x = k THEN [value |-> v, prev |-> Nil, next |-> c.head]
                        ELSE IF x = c.head THEN [c.node[x] EXCEPT !.prev = k]
                        ELSE c.node[x]],
            !.head = k,
            !.tail = IF c.tail = Nil THEN k ELSE c.tail]

\* a put() that never evicts
putNoEvict(c, k, v) ==
  IF k \in DOMAIN c.node
    THEN moveToFront([c EXCEPT !.node[k].value = v], k)
    ELSE insertNew(c, k, v)

\* a put() that updates the value of a present key without refreshing its recency
putNoRefresh(c, k, v) ==
  IF k \in DOMAIN c.node
    THEN [c EXCEPT !.node[k].value = v]
    ELSE insertNew(IF Cardinality(DOMAIN c.node) >= c.capacity THEN evictLRU(c) ELSE c, k, v)

\* put(key, value)
put(c, k, v) ==
  IF k \in DOMAIN c.node
    THEN moveToFront([c EXCEPT !.node[k].value = v], k)
    ELSE insertNew(IF Cardinality(DOMAIN c.node) >= c.capacity THEN evictLRU(c) ELSE c, k, v)

\* a get() that does not refresh the recency of the entry
getNoRefresh(c, k) ==
  IF k \notin DOMAIN c.node
    THEN [cache |-> [c EXCEPT !.misses = @ + 1], ret |-> Nil]
    ELSE [cache |-> [c EXCEPT !.hits = @ + 1], ret |-> c.node[k].value]

\* get(key): null on a miss
get(c, k) ==
  IF k \notin DOMAIN c.node
    THEN [cache |-> [c EXCEPT !.misses = @ + 1], ret |-> Nil]
    ELSE [cache |-> moveToFront([c EXCEPT !.hits = @ + 1], k), ret |-> c.node[k].value]

\* clear()
clear(c) ==
  [c EXCEPT !.node = [k \in {} |-> Nil], !.head = Nil, !.tail = Nil,
            !.hits = 0, !.misses = 0]

CacheInit ==
  /\ cache = LRUCache(CacheCap)
  /\ cHist = <<>>

\* the key a call evicted, if any
Evicted(before, after) ==
  LET gone == DOMAIN before.node \ DOMAIN after.node
  IN IF gone = {} THEN Nil ELSE CHOOSE k \in gone : TRUE

CacheGet(k) ==
  LET r == get(cache, k) IN
    /\ Len(cHist) < MaxCacheOps
    /\ cache' = r.cache
    /\ cHist' = Append(cHist, [op |-> "get", key |-> k, value |-> Nil,
                               present |-> k \in DOMAIN cache.node, ret |-> r.ret,
                               evicted |-> Evicted(cache, r.cache)])

CachePut(k, v) ==
  LET c2 == put(cache, k, v) IN
    /\ Len(cHist) < MaxCacheOps
    /\ cache' = c2
    /\ cHist' = Append(cHist, [op |-> "put", key |-> k, value |-> v,
                               present |-> k \in DOMAIN cache.node, ret |-> Nil,
                               evicted |-> Evicted(cache, c2)])

CacheClear ==
  /\ Len(cHist) < MaxCacheOps
  /\ cache.head # Nil
  /\ cache' = clear(cache)
  /\ cHist' = Append(cHist, [op |-> "clear", key |-> Nil, value |-> Nil,
                             present |-> FALSE, ret |-> Nil, evicted |-> Nil])

\* ------------------------------------------------------- claims on LRUCache
Size(c) == Cardinality(DOMAIN c.node)

\* C11: in every reachable state of the cache, under any sequence of get, put
\* and clear, the sequence walked from the head along next, and the one walked
\* from the tail along prev taken backwards, contain exactly the keys of the
\* index, each once; its length is the size of the index, which never exceeds
\* the capacity.
C11_ListMatchesIndex ==
  LET s == Recency(cache) IN
    /\ Range(s) = DOMAIN cache.node
    /\ Len(s) = Size(cache)
    /\ RecencyBack(cache) = Reverse(s)
    /\ Size(cache) <= cache.capacity

\* a full cache that has evicted an entry and then moved an entry to the front
C11_Witness ==
  /\ Size(cache) = cache.capacity
  /\ \E j, k \in DOMAIN cHist :
       /\ j < k
       /\ cHist[j].evicted # Nil
       /\ cHist[k].op = "get" /\ cHist[k].present /\ cHist[k].key = cache.head
       /\ k = Len(cHist)

\* the calls made since the cache was last empty by construction or clear()
LastClear(h) ==
  IF \E i \in DOMAIN h : h[i].op = "clear"
    THEN CHOOSE i \in DOMAIN h :
           h[i].op = "clear" /\ \A j \in DOMAIN h : j > i => h[j].op # "clear"
    ELSE 0
SinceClear(h) == SubSeq(h, LastClear(h) + 1, Len(h))
DistinctPuts(h) ==
  /\ \A i \in DOMAIN h : h[i].op = "put"
  /\ \A i, j \in DOMAIN h : i # j => h[i].key # h[j].key

\* C12: N+1 distinct keys put into an empty cache of capacity N, with no get in
\* between, evict exactly one key, the first one inserted, on the last put;
\* the other N keys are the content of the cache.
C12_FirstInsertedEvicted ==
  LET h == SinceClear(cHist) IN
    (DistinctPuts(h) /\ Len(h) = cache.capacity + 1) =>
      /\ DOMAIN cache.node = {h[i].key : i \in 2 .. Len(h)}
      /\ \A i \in 1 .. Len(h) - 1 : h[i].evicted = Nil
      /\ h[Len(h)].evicted = h[1].key

C12_Witness ==
  LET h == SinceClear(cHist) IN
    /\ DistinctPuts(h) /\ Len(h) = cache.capacity + 1
    /\ h[1].key \notin DOMAIN cache.node
    /\ Size(cache) = cache.capacity

\* a get of the present key cHist[i].key followed, up to now, only by puts of
\* keys that were absent when put, distinct from each other and from that key
FreshPutsAfterGet(i) ==
  /\ cHist[i].op = "get" /\ cHist[i].present
  /\ \A j \in i + 1 .. Len(cHist) :
       cHist[j].op = "put" /\ ~cHist[j].present /\ cHist[j].key # cHist[i].key
  /\ \A j, k \in i + 1 .. Len(cHist) : j # k => cHist[j].key # cHist[k].key

\* C13 as stated: after a get on a present key K, N more new distinct keys put
\* into a cache of capacity N leave K in the cache.
C13_KeptAfterNPuts ==
  \A i \in DOMAIN cHist :
    (FreshPutsAfterGet(i) /\ Len(cHist) - i = cache.capacity) =>
      cHist[i].key \in DOMAIN cache.node

\* C13 (amended): after a get on a present key K, K is in the cache for as
\* long as fewer than N new distinct keys have been put since; the N-th such
\* put evicts K.
C13_KeptUntilNthPut ==
  \A i \in DOMAIN cHist :
    FreshPutsAfterGet(i) =>
      (cHist[i].key \in DOMAIN cache.node <=> Len(cHist) - i < cache.capacity)

\* K was read, N-1 new keys were put, the last of them evicting another entry
C13_Witness ==
  \E i \in DOMAIN cHist :
    /\ FreshPutsAfterGet(i)
    /\ Len(cHist) - i = cache.capacity - 1
    /\ cache.capacity > 1
    /\ cHist[Len(cHist)].evicted # Nil
    /\ cHist[i].key \in DOMAIN cache.node

\* the call a step of the cache makes, and what it leaves of the other values
CacheCalled(op) == Len(cHist') = Len(cHist) + 1 /\ cHist'[Len(cHist')].op = op
ValuesKept(S) == \A x \in S : cache'.node[x].value = cache.node[x].value

\* C14: a put of a key that is not in a full cache evicts exactly the tail of
\* the recency sequence and puts the new entry at the head, the rest keeping
\* order and values; a put of a present key replaces its value and moves it to
\* the head, the index keeping the same keys.
C14_PutEvictsTailOnly ==
  [][CacheCalled("put") =>
       LET e == cHist'[Len(cHist')]
           k == e.key
           s == Recency(cache)
       IN /\ (k \notin DOMAIN cache.node /\ Size(cache) = cache.capacity) =>
               /\ DOMAIN cache.node \ DOMAIN cache'.node = {cache.tail}
               /\ cache.tail = s[Len(s)]
               /\ Recency(cache') = <<k>> \o SubSeq(s, 1, Len(s) - 1)
               /\ cache'.node[k].value = e.value
               /\ ValuesKept(DOMAIN cache'.node \ {k})
          /\ k \in DOMAIN cache.node =>
               /\ DOMAIN cache'.node = DOMAIN cache.node
               /\ Recency(cache') = <<k>> \o Without(s, k)
               /\ cache'.node[k].value = e.value
               /\ ValuesKept(DOMAIN cache.node \ {k})]_vars

\* a put that evicted the tail of a full cache, then a put of a present key that
\* was not the head
C14_Witness ==
  /\ Len(cHist) >= 2
  /\ LET e == cHist[Len(cHist)]
         d == cHist[Len(cHist) - 1]
     IN /\ e.op = "put" /\ e.present /\ cache.head = e.key
        /\ d.op = "put" /\ d.evicted # Nil /\ d.key # e.key

\* C15: a get of a present key returns its value, adds one to hits and makes
\* the entry the head, the other entries keeping their order and every value;
\* a get of an absent key returns null, adds one to misses and leaves the
\* entries and their order as they were.
C15_GetRefreshesOrMisses ==
  [][CacheCalled("get") =>
       LET e == cHist'[Len(cHist')]
           k == e.key
       IN IF k \in DOMAIN cache.node
            THEN /\ e.ret = cache.node[k].value
                 /\ cache'.hits = cache.hits + 1 /\ cache'.misses = cache.misses
                 /\ Recency(cache') = <<k>> \o Without(Recency(cache), k)
                 /\ DOMAIN cache'.node = DOMAIN cache.node
                 /\ ValuesKept(DOMAIN cache.node)
            ELSE /\ e.ret = Nil
                 /\ cache' = [cache EXCEPT !.misses = @ + 1]]_vars

\* a miss was counted, and the last call was a get of the third most recent entry
C15_Witness ==
  /\ Len(cHist) >= 3
  /\ LET e == cHist[Len(cHist)]
         d == cHist[Len(cHist) - 1]
         b == cHist[Len(cHist) - 2]
     IN /\ e.op = "get" /\ e.present /\ cache.head = e.key
        /\ d.op = "put" /\ b.op = "put"
        /\ e.key # d.key /\ e.key # b.key /\ d.key # b.key
        /\ cache.misses >= 1 /\ cache.hits >= 1

\* ----------------------------------------------------- RoundRobinScheduler
\* lastAssigned of a worker and quantum are written and never read: left out.
\* A worker returned by assignTask() is named by its position in the list,
\* counted from 1; 0 stands for null.
WorkerIds == 1 .. NWorkerIds
MaxLoads == 1 .. MaxLoadCap

\* constructor()
RoundRobinScheduler == [workers |-> <<>>, currentIndex |-> 0]

\* addWorker(id, maxLoad)
addWorker(l, id, maxLoad) ==
  [l EXCEPT !.workers = Append(@, [id |-> id, load |-> 0, maxLoad |-> maxLoad,
                                   active |-> TRUE])]

\* removeWorker(id): filters the list, currentIndex is left as it is
removeWorker(l, id) ==
  [l EXCEPT !.workers = SelectSeq(@, LAMBDA w : w.id # id)]

\* the while loop of assignTask(), lines 218-232. workers[currentIndex] is
\* undefined when currentIndex >= workers.length, and worker.active then
\* throws a TypeError, after currentIndex and attempts were advanced.
RECURSIVE scan(_, _, _)
scan(l, attempts, maxAttempts) ==
  IF attempts >= maxAttempts
    THEN [lb |-> l, ret |-> 0, threw |-> FALSE, attempts |-> attempts]
    ELSE LET i == l.currentIndex + 1
             moved == [l EXCEPT !.currentIndex = (l.currentIndex + 1) % Len(l.workers)]
         IN IF i > Len(l.workers)
              THEN [lb |-> moved, ret |-> 0, threw |-> TRUE, attempts |-> attempts + 1]
              ELSE IF l.workers[i].active /\ l.workers[i].load < l.workers[i].maxLoad
                THEN [lb |-> [moved EXCEPT !.workers[i].load = @ + 1],
                      ret |-> i, threw |-> FALSE, attempts |-> attempts + 1]
                ELSE scan(moved, attempts + 1, maxAttempts)

\* assignTask()
assignTask(l) ==
  IF Len(l.workers) = 0
    THEN [lb |-> l, ret |-> 0, threw |-> FALSE, attempts |-> 0]
    ELSE scan(l, 0, Len(l.workers))

\* workers.find(w => w.id === workerId): the first position with the id, or 0
find(ws, id) ==
  IF \E i \in DOMAIN ws : ws[i].id = id
    THEN CHOOSE i \in DOMAIN ws : ws[i].id = id /\ \A j \in 1 .. i - 1 : ws[j].id # id
    ELSE 0

\* a releaseTask() that decrements without the test load > 0
releaseTaskNoFloor(l, workerId) ==
  LET i == find(l.workers, workerId)
  IN IF i # 0 THEN [l EXCEPT !.workers[i].load = @ - 1] ELSE l

\* releaseTask(workerId)
releaseTask(l, workerId) ==
  LET i == find(l.workers, workerId)
  IN IF i # 0 /\ l.workers[i].load > 0 THEN [l EXCEPT !.workers[i].load = @ - 1] ELSE l

AllIdle(l) == \A i \in DOMAIN l.workers : l.workers[i].load = 0

LbInit ==
  /\ lb = RoundRobinScheduler
  /\ lbLast = [op |-> "new", id |-> 0, start |-> 0, ret |-> 0, threw |-> FALSE,
               attempts |-> 0]
  /\ lbRun = [fresh |-> TRUE, start |-> 0, rets |-> <<>>]
  /\ lbOps = 0

\* a call other than assignTask() ends the run of assignTask() calls
LbOther(op, id, l2) ==
  /\ lbOps < MaxLbOps
  /\ lb' = l2
  /\ lbLast' = [op |-> op, id |-> id, start |-> lb.currentIndex, ret |-> 0,
                threw |-> FALSE, attempts |-> 0]
  /\ lbRun' = [fresh |-> AllIdle(l2), start |-> l2.currentIndex, rets |-> <<>>]
  /\ lbOps' = lbOps + 1

LbAddWorker(id, maxLoad) ==
  /\ Len(lb.workers) < MaxWorkers
  /\ LbOther("addWorker", id, addWorker(lb, id, maxLoad))

LbRemoveWorker(id) == LbOther("removeWorker", id, removeWorker(lb, id))

LbReleaseTask(id) == LbOther("releaseTask", id, releaseTask(lb, id))

LbAssignTask ==
  LET r == assignTask(lb) IN
    /\ lbOps < MaxLbOps
    /\ lb' = r.lb
    /\ lbLast' = [op |-> "assignTask", id |-> 0, start |-> lb.currentIndex,
                  ret |-> r.ret, threw |-> r.threw, attempts |-> r.attempts]
    /\ lbRun' = [lbRun EXCEPT !.rets = Append(@, r.ret)]
    /\ lbOps' = lbOps + 1

\* -------------------------------------------- claims on RoundRobinScheduler
LbCalled(op) == lbOps' = lbOps + 1 /\ lbLast'.op = op
Eligible(w) == w.active /\ w.load < w.maxLoad

\* C16: after any sequence of addWorker, removeWorker, assignTask and
\* releaseTask, currentIndex is a valid index of the worker list whenever the
\* list is not empty, and assignTask() returns a worker or null without
\* reading past the end of the list.
C16_CursorValid ==
  /\ Len(lb.workers) > 0 => lb.currentIndex < Len(lb.workers)
  /\ ~lbLast.threw

\* C17: with W active workers of capacity C each and all loads 0, exactly W*C
\* assignTask() calls in a row succeed and every later one returns null; the
\* successful calls return the workers in cyclic list order, starting at the
\* position currentIndex had when the run began.
C17_RoundRobinFill ==
  LET W == Len(lb.workers)
      rets == lbRun.rets
  IN \A C \in MaxLoads :
       (/\ lbRun.fresh /\ W >= 1
        /\ \A i \in 1 .. W : lb.workers[i].maxLoad = C /\ lb.workers[i].active) =>
         \A n \in DOMAIN rets :
           IF n <= W * C THEN rets[n] = ((lbRun.start + n - 1) % W) + 1
                         ELSE rets[n] = 0

\* the position examined at the j-th scan step of an assignTask() that starts
\* with currentIndex = s on W workers
Examined(s, j, W) == ((s + j - 1) % W) + 1

\* C18: assignTask() examines the workers in list order from currentIndex,
\* advancing currentIndex by one, wrapping, per worker examined; it returns the
\* first one that is active with load < maxLoad and increments the load of that
\* worker alone; when no worker is eligible it returns null after one full
\* rotation, with every load unchanged and currentIndex where it started.
C18_ScanFromCursor ==
  [][(LbCalled("assignTask") /\ Len(lb.workers) > 0) =>
       LET W == Len(lb.workers)
           s == lb.currentIndex
           r == lbLast'
           hits == {j \in 1 .. W : Eligible(lb.workers[Examined(s, j, W)])}
       IN IF hits # {}
            THEN LET j == CHOOSE x \in hits : \A y \in hits : x <= y
                 IN /\ ~r.threw /\ r.ret = Examined(s, j, W) /\ r.attempts = j
                    /\ lb'.currentIndex = (s + j) % W
                    /\ lb'.workers = [lb.workers EXCEPT ![Examined(s, j, W)].load = @ + 1]
            ELSE /\ ~r.threw /\ r.ret = 0 /\ r.attempts = W
                 /\ lb'.workers = lb.workers
                 /\ lb'.currentIndex = s]_vars

ProcIds == 1 .. NProcs
ResIds == 1 .. NRes
NoHolder == 0
PNode(p) == <<"process", p>>
RNode(r) == <<"resource", r>>

\* the two empty Maps
DeadlockDetector == [resources |-> [r \in {} |-> 0], processes |-> [p \in {} |-> 0]]

\* Map.set of a new key
MapSet(f, k, v) == [x \in DOMAIN f \cup {k} |-> IF x = k THEN v ELSE f[x]]

\* buildResourceAllocationGraph(): process -> the resources it waits for,
\* resource -> its holder
buildResourceAllocationGraph(d) ==
  [n \in {PNode(p) : p \in DOMAIN d.processes} \cup {RNode(r) : r \in DOMAIN d.resources} |->
     IF n[1] = "process"
       THEN {RNode(r) : r \in Range(d.processes[n[2]].waiting)}
       ELSE IF d.resources[n[2]].holder # NoHolder
         THEN {PNode(d.resources[n[2]].holder)}
         ELSE {}]

\* dfs(node) of hasCycle(): dfsEach is its for loop over the neighbours still
\* to visit; recStack.delete(node) is the return to the caller's recStack
RECURSIVE dfs(_, _, _, _)
RECURSIVE dfsEach(_, _, _, _)
dfsEach(g, ns, visited, recStack) ==
  IF ns = {} THEN [found |-> FALSE, visited |-> visited]
  ELSE LET nb == CHOOSE x \in ns : TRUE
       IN IF nb \notin visited
            THEN LET r == dfs(g, nb, visited, recStack)
                 IN IF r.found THEN r ELSE dfsEach(g, ns \ {nb}, r.visited, recStack)
            ELSE IF nb \in recStack
              THEN [found |-> TRUE, visited |-> visited]
              ELSE dfsEach(g, ns \ {nb}, visited, recStack)

dfs(g, node, visited, recStack) ==
  dfsEach(g, IF node \in DOMAIN g THEN g[node] ELSE {},
          visited \cup {node}, recStack \cup {node})

\* the for loop of hasCycle() over the keys still to start from
RECURSIVE dfsRoots(_, _, _)
dfsRoots(g, roots, visited) ==
  IF roots = {} THEN FALSE
  ELSE LET n == CHOOSE x \in roots : TRUE
       IN IF n \in visited THEN dfsRoots(g, roots \ {n}, visited)
          ELSE LET r == dfs(g, n, visited, {})
               IN r.found \/ dfsRoots(g, roots \ {n}, r.visited)

hasCycle(g) == dfsRoots(g, DOMAIN g, {})

\* a detectDeadlock() that looks at the waits of the processes only
detectDeadlockWaitsOnly(d) ==
  hasCycle([n \in DOMAIN buildResourceAllocationGraph(d) |->
              IF n[1] = "process" THEN buildResourceAllocationGraph(d)[n] ELSE {}])

\* detectDeadlock()
detectDeadlock(d) == hasCycle(buildResourceAllocationGraph(d))

\* requestResource(), lines 23-40: the resource and the process are created
\* on first reference
created(d, p, r) ==
  LET rs == IF r \in DOMAIN d.resources THEN d.resources
            ELSE MapSet(d.resources, r, [holder |-> NoHolder, waitQueue |-> <<>>])
      ps == IF p \in DOMAIN d.processes THEN d.processes
            ELSE MapSet(d.processes, p, [holding |-> <<>>, waiting |-> <<>>])
  IN [resources |-> rs, processes |-> ps]

\* requestResource(), lines 51-52
queued(d, p, r) ==
  [d EXCEPT !.resources[r].waitQueue = Append(@, p),
            !.processes[p].waiting = Append(@, r)]

\* a requestResource() that leaves the requester queued when it finds a cycle
requestResourceNoRetract(d, p, r) ==
  LET c == created(d, p, r)
  IN IF c.resources[r].holder = NoHolder
       THEN [dd |-> [c EXCEPT !.resources[r].holder = p,
                              !.processes[p].holding = Append(@, r)],
             ret |-> TRUE]
       ELSE [dd |-> queued(c, p, r), ret |-> FALSE]

\* a requestResource() that grants without recording the resource as held
requestResourceNoHolding(d, p, r) ==
  LET c == created(d, p, r)
  IN IF c.resources[r].holder = NoHolder
       THEN [dd |-> [c EXCEPT !.resources[r].holder = p], ret |-> TRUE]
       ELSE LET q == queued(c, p, r)
            IN IF detectDeadlock(q)
                 THEN [dd |-> [q EXCEPT !.resources[r].waitQueue = Without(@, p),
                                        !.processes[p].waiting = Without(@, r)],
                       ret |-> FALSE]
                 ELSE [dd |-> q, ret |-> FALSE]

\* requestResource(processId, resourceId)
requestResource(d, p, r) ==
  LET c == created(d, p, r)
  IN IF c.resources[r].holder = NoHolder
       THEN [dd |-> [c EXCEPT !.resources[r].holder = p,
                              !.processes[p].holding = Append(@, r)],
             ret |-> TRUE]
       ELSE LET q == queued(c, p, r)
            IN IF detectDeadlock(q)
                 THEN [dd |-> [q EXCEPT !.resources[r].waitQueue = Without(@, p),
                                        !.processes[p].waiting = Without(@, r)],
                       ret |-> FALSE]
                 ELSE [dd |-> q, ret |-> FALSE]

\* a releaseResource() that frees the resource for any known process
releaseResourceUnchecked(d, p, r) ==
  IF r \notin DOMAIN d.resources \/ p \notin DOMAIN d.processes
    THEN d
    ELSE LET freed == [d EXCEPT !.resources[r].holder = NoHolder,
                                !.processes[p].holding = Without(@, r)]
             wq == freed.resources[r].waitQueue
         IN IF Len(wq) > 0
              THEN [freed EXCEPT
                      !.resources[r].waitQueue = Tail(wq),
                      !.resources[r].holder = Head(wq),
                      !.processes[Head(wq)].holding = Append(@, r),
                      !.processes[Head(wq)].waiting = Without(@, r)]
              ELSE freed

\* releaseResource(processId, resourceId)
releaseResource(d, p, r) ==
  IF r \notin DOMAIN d.resources \/ p \notin DOMAIN d.processes
     \/ d.resources[r].holder # p
    THEN d
    ELSE LET freed == [d EXCEPT !.resources[r].holder = NoHolder,
                                !.processes[p].holding = Without(@, r)]
             wq == freed.resources[r].waitQueue
         IN IF Len(wq) > 0
              THEN LET shifted == [freed EXCEPT !.resources[r].waitQueue = Tail(wq)]
                       nextProcess == Head(wq)
                   IN IF nextProcess \in DOMAIN shifted.processes
                        THEN [shifted EXCEPT
                                !.resources[r].holder = nextProcess,
                                !.processes[nextProcess].holding = Append(@, r),
                                !.processes[nextProcess].waiting = Without(@, r)]
                        ELSE shifted
              ELSE freed

\* getState(), lines 163-177
getState(d) ==
  [processes |-> d.processes, resources |-> d.resources,
   deadlockDetected |-> detectDeadlock(d)]

HeldBy(d, p, r) == r \in DOMAIN d.resources /\ d.resources[r].holder = p

DdInit ==
  /\ dd = DeadlockDetector
  /\ ddLast = [op |-> "new", p |-> 0, r |-> 0, ret |-> FALSE, held |-> FALSE]
  /\ ddOps = 0

DdRequestResource(p, r) ==
  LET res == requestResource(dd, p, r) IN
    /\ ddOps < MaxDdOps
    /\ dd' = res.dd
    /\ ddLast' = [op |-> "requestResource", p |-> p, r |-> r, ret |-> res.ret,
                  held |-> HeldBy(dd, p, r)]
    /\ ddOps' = ddOps + 1

DdReleaseResource(p, r) ==
  /\ ddOps < MaxDdOps
  /\ dd' = releaseResource(dd, p, r)
  /\ ddLast' = [op |-> "releaseResource", p |-> p, r |-> r, ret |-> FALSE,
                held |-> HeldBy(dd, p, r)]
  /\ ddOps' = ddOps + 1

\* ----------------------------------------------- claims on DeadlockDetector
DdCalled(op) == ddOps' = ddOps + 1 /\ ddLast'.op = op
HeldByAnother(d, p, r) ==
  r \in DOMAIN d.resources /\ d.resources[r].holder \notin {NoHolder, p}
Holders(d) == [r \in DOMAIN d.resources |-> d.resources[r].holder]
Holdings(d) == [p \in DOMAIN d.processes |-> d.processes[p].holding]

\* C20: requestResource(p, r) on a resource held by another process queues p
\* on r and r on p, then checks for a cycle. With a cycle it returns false, p
\* is no longer in the wait queue of r nor r in the waiting list of p, and every
\* holder, every holding list and every other process's waits are as before
\* the call. Without a cycle it returns false and leaves exactly the queued
\* state: p at the back of r's queue, r at the back of p's waiting list,
\* nothing granted.
C20_WaitOrRetract ==
  [][\A p \in ProcIds, r \in ResIds :
       (DdCalled("requestResource") /\ ddLast'.p = p /\ ddLast'.r = r
        /\ HeldByAnother(dd, p, r)) =>
         LET c == created(dd, p, r)
             q == queued(c, p, r)
         IN /\ ~ddLast'.ret
            /\ Holders(dd') = Holders(c)
            /\ Holdings(dd') = Holdings(c)
            /\ IF detectDeadlock(q)
                 THEN /\ p \notin Range(dd'.resources[r].waitQueue)
                      /\ r \notin Range(dd'.processes[p].waiting)
                      /\ \A o \in DOMAIN c.processes \ {p} :
                           dd'.processes[o].waiting = c.processes[o].waiting
                      /\ \A s \in DOMAIN c.resources \ {r} :
                           dd'.resources[s].waitQueue = c.resources[s].waitQueue
                      /\ Without(dd'.resources[r].waitQueue, p)
                           = Without(c.resources[r].waitQueue, p)
                 ELSE dd' = q]_vars

\* the last request found a cycle and was retracted, while an earlier request
\* of another process is still queued
C20_Witness ==
  /\ ddLast.op = "requestResource" /\ ~ddLast.ret
  /\ HeldByAnother(dd, ddLast.p, ddLast.r)
  /\ ddLast.p \notin Range(dd.resources[ddLast.r].waitQueue)
  /\ \E s \in DOMAIN dd.resources :
       \E o \in Range(dd.resources[s].waitQueue) :
         o # ddLast.p /\ s \in Range(dd.processes[o].waiting)

\* C21: when p requests r held by o while o waits for a resource that p
\* holds (P1 holds R1, P2 holds R2 and one of them already waits for the
\* other's resource), the request closes a circular wait: it is refused, p
\* not staying in the wait queue of r, whichever of the two processes makes it.
ClosesCircularWait(d, p, r) ==
  /\ HeldByAnother(d, p, r)
  /\ \E s \in DOMAIN d.resources \ {r} :
       /\ d.resources[s].holder = p
       /\ s \in Range(d.processes[d.resources[r].holder].waiting)

C21_CircularWaitRefused ==
  [][\A p \in ProcIds, r \in ResIds :
       (DdCalled("requestResource") /\ ddLast'.p = p /\ ddLast'.r = r
        /\ ClosesCircularWait(dd, p, r)) =>
         /\ ~ddLast'.ret
         /\ detectDeadlock(queued(dd, p, r))
         /\ p \notin Range(dd'.resources[r].waitQueue)
         /\ r \notin Range(dd'.processes[p].waiting)
         /\ dd'.resources[r].holder = dd.resources[r].holder]_vars

\* process 2 has just been refused resource 1, which process 1 holds while
\* waiting for resource 2 that process 2 holds
C21_Witness ==
  /\ ddLast = [op |-> "requestResource", p |-> 2, r |-> 1, ret |-> FALSE, held |-> FALSE]
  /\ HeldBy(dd, 1, 1) /\ HeldBy(dd, 2, 2)
  /\ dd.processes[1].waiting = <<2>>
  /\ dd.resources[1].waitQueue = <<>>
  /\ dd.processes[2].waiting = <<>>

\* the first process in the wait queue of r, or NoHolder
NextWaiter(d, r) ==
  IF Len(d.resources[r].waitQueue) > 0 THEN Head(d.resources[r].waitQueue) ELSE NoHolder

\* C22: releaseResource(p, r) changes nothing when p is not the holder of r.
\* When p is the holder, r leaves the holding list of p; with a non-empty wait
\* queue the first queued process becomes the holder, leaves the front of the
\* queue, gets r at the end of its holding list and loses r from its waiting
\* list; with an empty queue r has no holder. Nothing else changes.
C22_ReleaseGrantsNext ==
  [][\A p \in ProcIds, r \in ResIds :
       (DdCalled("releaseResource") /\ ddLast'.p = p /\ ddLast'.r = r) =>
         IF ~HeldBy(dd, p, r) THEN dd' = dd
         ELSE LET n == NextWaiter(dd, r)
              IN /\ DOMAIN dd'.resources = DOMAIN dd.resources
                 /\ DOMAIN dd'.processes = DOMAIN dd.processes
                 /\ \A s \in DOMAIN dd.resources \ {r} : dd'.resources[s] = dd.resources[s]
                 /\ dd'.resources[r].holder = n
                 /\ dd'.resources[r].waitQueue =
                      IF n = NoHolder THEN <<>> ELSE Tail(dd.resources[r].waitQueue)
                 /\ \A x \in DOMAIN dd.processes :
                      LET h == IF x = p THEN Without(dd.processes[x].holding, r)
                               ELSE dd.processes[x].holding
                      IN dd'.processes[x] =
                           IF x = n
                             THEN [holding |-> Append(h, r),
                                   waiting |-> Without(dd.processes[x].waiting, r)]
                             ELSE [holding |-> h, waiting |-> dd.processes[x].waiting]]_vars

\* the holder has just released a resource that went to the first of two
\* queued processes
C22_Witness ==
  /\ ddLast.op = "releaseResource" /\ ddLast.held
  /\ dd.resources[ddLast.r].holder \notin {NoHolder, ddLast.p}
  /\ Len(dd.resources[ddLast.r].waitQueue) = 1
  /\ ddLast.r \in Range(dd.processes[dd.resources[ddLast.r].holder].holding)
  /\ ddLast.r \notin Range(dd.processes[ddLast.p].holding)

\* C23: requestResource(p, r) on a resource without a holder returns true,
\* makes p the holder of r and appends r to the holding list of p; no wait
\* queue and no waiting list changes, no other holder or holding list changes;
\* an unknown resource or process is created by the call.
C23_FreeResourceGranted ==
  [][\A p \in ProcIds, r \in ResIds :
       (DdCalled("requestResource") /\ ddLast'.p = p /\ ddLast'.r = r
        /\ (r \notin DOMAIN dd.resources \/ dd.resources[r].holder = NoHolder)) =>
         /\ ddLast'.ret
         /\ DOMAIN dd'.resources = DOMAIN dd.resources \cup {r}
         /\ DOMAIN dd'.processes = DOMAIN dd.processes \cup {p}
         /\ dd'.resources[r].holder = p
         /\ dd'.resources[r].waitQueue =
              IF r \in DOMAIN dd.resources THEN dd.resources[r].waitQueue ELSE <<>>
         /\ dd'.processes[p] =
              IF p \in DOMAIN dd.processes
                THEN [dd.processes[p] EXCEPT !.holding = Append(@, r)]
                ELSE [holding |-> <<r>>, waiting |-> <<>>]
         /\ \A s \in DOMAIN dd.resources \ {r} : dd'.resources[s] = dd.resources[s]
         /\ \A x \in DOMAIN dd.processes \ {p} : dd'.processes[x] = dd.processes[x]]_vars

\* a process that waits for one resource has just been granted another
C23_Witness ==
  /\ ddLast.op = "requestResource" /\ ddLast.ret
  /\ dd.resources[ddLast.r].holder = ddLast.p
  /\ dd.processes[ddLast.p].waiting # <<>>
  /\ Len(dd.processes[ddLast.p].holding) = 1
  /\ ddOps >= 4

\* C33: in every reachable state the allocation graph has no cycle:
\* getState().deadlockDetected is false
C33_NeverCyclic == ~getState(dd).deadlockDetected

\* C34: the two views of the graph agree in every reachable state: r's holder
\* is p exactly when p's holding list has r, p is in r's wait queue exactly
\* when p's waiting list has r, no process is twice in a wait queue, and no
\* process holds a resource it also waits for
C34_ViewsAgree ==
  \A r \in DOMAIN dd.resources :
    /\ \A i, j \in DOMAIN dd.resources[r].waitQueue :
          dd.resources[r].waitQueue[i] = dd.resources[r].waitQueue[j] => i = j
    /\ \A p \in DOMAIN dd.processes :
          /\ dd.resources[r].holder = p <=> r \in Range(dd.processes[p].holding)
          /\ p \in Range(dd.resources[r].waitQueue)
                <=> r \in Range(dd.processes[p].waiting)
          /\ ~(dd.resources[r].holder = p /\ r \in Range(dd.processes[p].waiting))

\* ------------------------------------------------- socket handlers (initSocket)
\* The module keeps one instance of each primitive and the registries users,
\* threads and groups. A handler runs to its end without interleaving: the
\* only await of the module is the connectionSemaphore.acquire() of the
\* connection handler. messageQueue is the PriorityMessageQueue modelled above;
\* of it the handlers only call enqueue(), which is recorded as output.
\* connectionSemaphore has 100 permits in the program; the model gives it
\* ConnCap permits so that connections come to wait, and threadCache
\* ThreadCacheCap entries instead of 100 so that threads come to be evicted.
\* threads and threadCache hold references to Thread objects: heap is the
\* sequence of the objects created, a reference is a position in it.
SockIds == 1 .. NSocks
UserIds == 1 .. NUsers
GroupIds == {1}
NoSock == 0
NoWorker == 0
WorkerMaxLoad == 50

\* a direct thread id "a-b" is the number 10a + b, the group thread id
\* "group-<gid>" the number -gid; split("-") gives the user ids of a direct
\* thread, and for a group thread words that no user is named by, NoUser
NoUser == 0
DirectThreads == {10 * a + b : a, b \in UserIds}
GroupThreads == {0 - g : g \in GroupIds}
ThreadIds == DirectThreads \cup GroupThreads
startsWithGroup(threadId) == threadId < 0
\* the thread id "announcement-user-<id>"
AnnouncementThread(u) == 100 + u
split(threadId) ==
  IF startsWithGroup(threadId) THEN <<NoUser, NoUser>>
  ELSE <<threadId \div 10, threadId % 10>>

\* the contents the priority heuristics tell apart
Contents == {"urgent", "emergency", "important", "@all", "hello"}
classify(content) ==
  IF content \in {"urgent", "emergency"} THEN URGENT
  ELSE IF content \in {"important", "@all"} THEN HIGH
  ELSE NORMAL

\* users is a Record keyed by user id; the model keeps its entries in key
\* order of insertion, the order of Object.values()
userAt(us, id) ==
  IF \E i \in DOMAIN us : us[i].id = id
    THEN CHOOSE i \in DOMAIN us : us[i].id = id
    ELSE 0
socketIdOf(us, id) == IF userAt(us, id) = 0 THEN NoSock ELSE us[userAt(us, id)].socketId

\* the module-level instances, lines 147-157
CoModule ==
  [dd |-> DeadlockDetector,
   lb |-> addWorker(addWorker(addWorker(RoundRobinScheduler, 1, WorkerMaxLoad),
                              2, WorkerMaxLoad), 3, WorkerMaxLoad),
   cache |-> LRUCache(ThreadCacheCap),
   sem |-> Semaphore(ConnCap),
   threads |-> [k \in {} |-> 0],
   heap |-> <<>>,
   users |-> <<>>,
   groups |-> [k \in {} |-> 0],
   socks |-> [s \in SockIds |-> [connected |-> FALSE, stage |-> "new"]]]

\* the fan-out loop of the send-message handler, lines 248-255: the socket
\* ids emitted to, in order
RECURSIVE fanOut(_, _, _)
fanOut(us, participants, emitted) ==
  IF participants = <<>> THEN emitted
  ELSE LET socketId == socketIdOf(us, Head(participants))
       IN IF socketId # NoSock /\ socketId \notin Range(emitted)
            THEN fanOut(us, Tail(participants), Append(emitted, socketId))
            ELSE fanOut(us, Tail(participants), emitted)

\* what a handler gave out: the error event, the priority given to
\* messageQueue.enqueue() (0: no call), the worker assignTask() returned, whether
\* releaseTask() was called, the sockets "receive-message" was emitted to,
\* whether join-thread logged a cache hit, whether it emitted "thread-history"
\* and with which messages
NoOutput ==
  [error |-> FALSE, enq |-> 0, worker |-> NoWorker, released |-> FALSE, emits |-> <<>>,
   hit |-> FALSE, replayed |-> FALSE, history |-> <<>>]

\* the thread the send-message handler finds or creates, lines 227-241
threadOf(c, threadId) ==
  IF threadId \in DOMAIN c.threads THEN c.heap[c.threads[threadId]]
  ELSE [participants |->
          IF startsWithGroup(threadId) /\ (0 - threadId) \in DOMAIN c.groups
            THEN c.groups[0 - threadId]
            ELSE split(threadId),
        messages |-> <<>>]

\* the Thread object of a thread id: the one the threads Map refers to, or the
\* one a handler is about to create and set, lines 227-240
refOf(c, threadId) ==
  IF threadId \in DOMAIN c.threads THEN c.threads[threadId] ELSE Len(c.heap) + 1

\* the objects after a handler has changed (or created) the Thread of threadId
stored(c, threadId, thread) ==
  IF threadId \in DOMAIN c.threads THEN [c.heap EXCEPT ![c.threads[threadId]] = thread]
  ELSE Append(c.heap, thread)

\* a send-message handler that emits to every participant with a socket id
onSendMessageNoDedup(c, threadId, senderId, content) ==
  LET req == requestResource(c.dd, senderId, threadId)
      a == assignTask(c.lb)
      thread == [threadOf(c, threadId) EXCEPT
                   !.messages = Append(@, [senderId |-> senderId, content |-> content])]
      all == [i \in DOMAIN thread.participants |-> socketIdOf(c.users, thread.participants[i])]
  IN [co |-> [c EXCEPT !.dd = releaseResource(req.dd, senderId, threadId),
                       !.lb = IF a.ret # 0 THEN releaseTask(a.lb, a.lb.workers[a.ret].id)
                              ELSE a.lb,
                       !.heap = stored(c, threadId, thread),
                       !.threads = MapSet(@, threadId, refOf(c, threadId)),
                       !.cache = put(@, threadId, refOf(c, threadId))],
      out |-> [error |-> FALSE, enq |-> classify(content), worker |-> a.ret,
               released |-> a.ret # 0,
               emits |-> SelectSeq(all, LAMBDA x : x # NoSock),
               hit |-> FALSE, replayed |-> FALSE, history |-> <<>>]]

\* a send-message handler that returns without releaseResource()
onSendMessageNoRelease(c, threadId, senderId, content) ==
  LET req == requestResource(c.dd, senderId, threadId)
  IN IF ~req.ret
       THEN [co |-> [c EXCEPT !.dd = req.dd], out |-> [NoOutput EXCEPT !.error = TRUE]]
       ELSE
         LET a == assignTask(c.lb)
             thread == [threadOf(c, threadId) EXCEPT
                          !.messages = Append(@, [senderId |-> senderId,
                                                  content |-> content])]
         IN [co |-> [c EXCEPT
                       !.dd = req.dd,
                       !.lb = IF a.ret # 0
                                THEN releaseTask(a.lb, a.lb.workers[a.ret].id)
                                ELSE a.lb,
                       !.heap = stored(c, threadId, thread),
                       !.threads = MapSet(@, threadId, refOf(c, threadId)),
                       !.cache = put(@, threadId, refOf(c, threadId))],
             out |-> [error |-> FALSE, enq |-> classify(content),
                      worker |-> a.ret, released |-> a.ret # 0,
                      emits |-> fanOut(c.users, thread.participants, <<>>),
                      hit |-> FALSE, replayed |-> FALSE, history |-> <<>>]]

\* the send-message handler, lines 185-262
onSendMessage(c, threadId, senderId, content) ==
  LET req == requestResource(c.dd, senderId, threadId)
  IN IF ~req.ret
       THEN [co |-> [c EXCEPT !.dd = req.dd], out |-> [NoOutput EXCEPT !.error = TRUE]]
       ELSE
         LET a == assignTask(c.lb)
             thread == [threadOf(c, threadId) EXCEPT
                          !.messages = Append(@, [senderId |-> senderId,
                                                  content |-> content])]
         IN IF a.threw
              THEN [co |-> [c EXCEPT !.dd = req.dd, !.lb = a.lb],
                    out |-> [NoOutput EXCEPT !.enq = classify(content)]]
              ELSE [co |-> [c EXCEPT
                              !.dd = releaseResource(req.dd, senderId, threadId),
                              !.lb = IF a.ret # 0
                                       THEN releaseTask(a.lb, a.lb.workers[a.ret].id)
                                       ELSE a.lb,
                              !.heap = stored(c, threadId, thread),
                              !.threads = MapSet(@, threadId, refOf(c, threadId)),
                              !.cache = put(@, threadId, refOf(c, threadId))],
                    out |-> [error |-> FALSE, enq |-> classify(content),
                             worker |-> a.ret, released |-> a.ret # 0,
                             emits |-> fanOut(c.users, thread.participants, <<>>),
                             hit |-> FALSE, replayed |-> FALSE, history |-> <<>>]]

\* a join-thread handler that does not look into threads on a cache miss
onJoinThreadNoFallback(c, threadId) ==
  LET g == get(c.cache, threadId)
  IN IF g.ret # Nil
       THEN [co |-> [c EXCEPT !.cache = g.cache],
             out |-> [NoOutput EXCEPT !.hit = TRUE, !.replayed = TRUE,
                                      !.history = c.heap[g.ret].messages]]
       ELSE [co |-> [c EXCEPT !.cache = g.cache], out |-> NoOutput]

\* the join-thread handler, lines 264-287
onJoinThread(c, threadId) ==
  LET g == get(c.cache, threadId)
  IN IF g.ret # Nil
       THEN [co |-> [c EXCEPT !.cache = g.cache],
             out |-> [NoOutput EXCEPT !.hit = TRUE, !.replayed = TRUE,
                                      !.history = c.heap[g.ret].messages]]
       ELSE IF threadId \in DOMAIN c.threads
              THEN [co |-> [c EXCEPT !.cache = put(g.cache, threadId, c.threads[threadId])],
                    out |-> [NoOutput EXCEPT
                               !.replayed = TRUE,
                               !.history = c.heap[c.threads[threadId]].messages]]
              ELSE [co |-> [c EXCEPT !.cache = g.cache], out |-> NoOutput]

\* one round of the broadcast-announcement handler for one thread, lines
\* 340-351 and 368-382: find or create the Thread, push, put, assignTask and
\* releaseTask (the emit between them is kept by the callers)
announce(c, threadId, participants, message) ==
  LET a == assignTask(c.lb)
      old == IF threadId \in DOMAIN c.threads THEN c.heap[c.threads[threadId]]
             ELSE [participants |-> participants, messages |-> <<>>]
      thread == [old EXCEPT !.messages = Append(@, message)]
  IN [c EXCEPT !.heap = stored(c, threadId, thread),
               !.threads = MapSet(@, threadId, refOf(c, threadId)),
               !.cache = put(@, threadId, refOf(c, threadId)),
               !.lb = IF a.ret # 0 THEN releaseTask(a.lb, a.lb.workers[a.ret].id)
                      ELSE a.lb]

\* groups.forEach of the handler, lines 337-362; the ids of groups are
\* "g-<Date.now()>", so the Map's order of insertion is that of the ids
RECURSIVE announceGroups(_, _, _, _)
announceGroups(c, gids, message, sent) ==
  IF gids = {} THEN [co |-> c, sent |-> sent]
  ELSE LET g == CHOOSE x \in gids : \A y \in gids : x <= y
       IN announceGroups(announce(c, 0 - g, c.groups[g], message), gids \ {g},
                         message, fanOut(c.users, c.groups[g], sent))

\* Object.values(users).forEach of the handler, lines 365-386
RECURSIVE announceUsers(_, _, _, _)
announceUsers(c, i, message, sent) ==
  IF i > Len(c.users) THEN [co |-> c, sent |-> sent]
  ELSE LET u == c.users[i]
       IN IF u.online /\ u.socketId # NoSock /\ u.socketId \notin Range(sent)
            THEN announceUsers(announce(c, AnnouncementThread(u.id), <<u.id>>, message),
                               i + 1, message, Append(sent, u.socketId))
            ELSE announceUsers(c, i + 1, message, sent)

\* the broadcast-announcement handler, lines 318-392
onBroadcast(c, senderId, content) ==
  LET message == [senderId |-> senderId, content |-> content]
      g == announceGroups(c, DOMAIN c.groups, message, <<>>)
      u == announceUsers(g.co, 1, message, g.sent)
  IN [co |-> u.co,
      out |-> [NoOutput EXCEPT
                 !.enq = IF c.heap = u.co.heap THEN 0 ELSE classify(content),
                 !.emits = u.sent]]

\* the user-online handler, lines 168-174
onUserOnline(c, s, u) ==
  LET rec == [id |-> u, socketId |-> s, online |-> TRUE]
  IN [c EXCEPT !.users = IF userAt(@, u) = 0 THEN Append(@, rec)
                         ELSE [@ EXCEPT ![userAt(@, u)] = rec]]

\* the create-group handler, lines 177-183; Date.now() gives the id
onCreateGroup(c, gid, members) == [c EXCEPT !.groups = MapSet(@, gid, members)]

\* a connection handler that registers the handlers without waiting for
\* acquire()
onConnectionNoWait(c, s) ==
  [c EXCEPT !.sem = acquire(@, s),
            !.socks[s] = [connected |-> TRUE, stage |-> "ready"]]

\* the connection handler, lines 160-166: the handlers of the socket are
\* registered once acquire() has resolved
onConnection(c, s) ==
  [c EXCEPT !.sem = acquire(@, s),
            !.socks[s] = [connected |-> TRUE,
                          stage |-> IF acquireImmediate(c.sem) THEN "ready" ELSE "waiting"]]

\* the disconnect handler, lines 289-302, and the continuation of the
\* connection handler that its release() resolves
onDisconnect(c, s) ==
  LET r == release(c.sem)
      mine == {i \in DOMAIN c.users : c.users[i].socketId = s}
      first == CHOOSE i \in mine : \A j \in mine : i <= j
  IN [c EXCEPT !.sem = r.sem,
               !.socks = [x \in SockIds |->
                            IF x \in r.resolved THEN [@[x] EXCEPT !.stage = "ready"]
                            ELSE @[x]],
               !.users = IF mine = {} THEN @
                         ELSE [@ EXCEPT ![first] = [@ EXCEPT !.online = FALSE,
                                                             !.socketId = NoSock]]]

CoInit ==
  /\ co = CoModule
  /\ coLast = [op |-> "new", sock |-> NoSock, sender |-> NoUser, thread |-> 0] @@ NoOutput
  /\ coOps = 0
  /\ coPasses = 0

CoHandled(c2, op, s, u, t, out) ==
  /\ coOps < MaxCoOps
  /\ co' = c2
  /\ coLast' = [op |-> op, sock |-> s, sender |-> u, thread |-> t] @@ out
  /\ coOps' = coOps + 1
  /\ coPasses' = IF op \in {"send-message", "broadcast-announcement"}
                   THEN coPasses + 1 ELSE coPasses

Listening(s) == co.socks[s].connected /\ co.socks[s].stage = "ready"

CoConnection(s) ==
  /\ co.socks[s].stage = "new"
  /\ CoHandled(onConnection(co, s), "connection", s, NoUser, 0, NoOutput)

\* the socket closes; its disconnect handler runs if it was registered
CoDisconnect(s) ==
  /\ co.socks[s].connected
  /\ LET gone == [co EXCEPT !.socks[s].connected = FALSE]
     IN CoHandled(IF co.socks[s].stage = "ready" THEN onDisconnect(gone, s) ELSE gone,
                  "disconnect", s, NoUser, 0, NoOutput)

CoUserOnline(s, u) ==
  /\ Listening(s)
  /\ CoHandled(onUserOnline(co, s, u), "user-online", s, u, 0, NoOutput)

CoCreateGroup(s, gid, members) ==
  /\ Listening(s)
  /\ CoHandled(onCreateGroup(co, gid, members), "create-group", NoSock, NoUser, 0, NoOutput)

CoJoinThread(s, threadId) ==
  /\ Listening(s)
  /\ LET r == onJoinThread(co, threadId)
     IN CoHandled(r.co, "join-thread", s, NoUser, threadId, r.out)

CoBroadcast(s, senderId, content) ==
  /\ Listening(s)
  /\ coPasses < MaxPasses
  /\ LET r == onBroadcast(co, senderId, content)
     IN CoHandled(r.co, "broadcast-announcement", s, senderId, 0, r.out)

CoSendMessage(s, threadId, senderId, content) ==
  /\ Listening(s)
  /\ coPasses < MaxPasses
  /\ LET r == onSendMessage(co, threadId, senderId, content)
     IN CoHandled(r.co, "send-message", s, senderId, threadId, r.out)

\* ------------------------------------------- claims on the socket handlers
\* the step is one handled socket event of the given kind
CoCalled(op) == coOps' = coOps + 1 /\ coLast'.op = op

\* no resource of the detector has a holder or a waiter, no process holds or
\* waits for anything
Idle(d) ==
  /\ \A r \in DOMAIN d.resources :
        d.resources[r].holder = NoHolder /\ d.resources[r].waitQueue = <<>>
  /\ \A p \in DOMAIN d.processes :
        d.processes[p].holding = <<>> /\ d.processes[p].waiting = <<>>

\* C29: every send-message pass finds its thread unheld, is accepted (no
\* "error" is emitted), and leaves every resource without holder and with an
\* empty wait queue; between passes the detector is idle
C29_EveryPassAccepted ==
  /\ [](Idle(co.dd))
  /\ [][CoCalled("send-message") =>
          /\ \A p \in UserIds : ~HeldBy(co.dd, p, coLast'.thread)
          /\ ~coLast'.error
          /\ Idle(co'.dd)]_vars

\* C29 witness: a second pass, by another sender than the first, on a thread
\* the detector already knows
C29_Witness ==
  /\ coLast.op = "send-message"
  /\ coPasses = 2
  /\ ~coLast.error
  /\ DOMAIN co.dd.resources = {coLast.thread}
  /\ Cardinality(DOMAIN co.dd.processes) = 2

\* the socket ids recorded for the participants of a thread
Connections(c, threadId) ==
  {socketIdOf(c.users, u) : u \in Range(threadOf(c, threadId).participants)} \ {NoSock}

\* C30: an accepted message is emitted exactly once to each distinct socket id
\* of the thread's participants, and to nothing else
C30_FanOutOncePerConnection ==
  [][CoCalled("send-message") /\ ~coLast'.error =>
       /\ Range(coLast'.emits) = Connections(co, coLast'.thread)
       /\ Len(coLast'.emits) = Cardinality(Connections(co, coLast'.thread))]_vars

\* C30 witness: a message to a thread of two users who share one socket id
\* was emitted once
C30_Witness ==
  /\ coLast.op = "send-message"
  /\ ~coLast.error
  /\ Len(coLast.emits) = 1
  /\ \E u, v \in Range(co.heap[co.threads[coLast.thread]].participants) :
        /\ u # v
        /\ socketIdOf(co.users, u) # NoSock
        /\ socketIdOf(co.users, u) = socketIdOf(co.users, v)

\* the keys and values of the cache, most recently used first
Cached(c) == [i \in DOMAIN Recency(c) |-> <<Recency(c)[i], c.node[Recency(c)[i]].value>>]

\* the log of messages the threads Map has for a thread id
LogOf(c, threadId) == c.heap[c.threads[threadId]].messages

\* C32: join-thread replays the log of the cached Thread on a hit; on a miss
\* it replays the Thread found in threads and puts it into the cache; for a
\* thread id in neither it replays nothing and leaves the cache contents as
\* they are. A replayed log is the log threads has for the id.
C32_JoinReplaysLog ==
  [][CoCalled("join-thread") =>
       LET t == coLast'.thread
           inCache == t \in DOMAIN co.cache.node
           inStore == t \in DOMAIN co.threads
       IN /\ coLast'.hit = inCache
          /\ coLast'.replayed = (inCache \/ inStore)
          /\ inCache => coLast'.history = co.heap[co.cache.node[t].value].messages
          /\ ~inCache /\ inStore =>
                /\ t \in DOMAIN co'.cache.node
                /\ co'.cache.node[t].value = co.threads[t]
          /\ ~inCache /\ ~inStore => Cached(co'.cache) = Cached(co.cache)
          /\ coLast'.replayed => inStore /\ coLast'.history = LogOf(co, t)]_vars

\* C32 witness: a join-thread missed the cache, found the thread in threads
\* and replayed its log of at least one message
C32_Witness ==
  /\ coLast.op = "join-thread"
  /\ ~coLast.hit
  /\ coLast.replayed
  /\ Len(coLast.history) >= 1
  /\ coLast.thread \in DOMAIN co.cache.node

\* the connections that have passed acquire() and have not disconnected
Admitted == {s \in SockIds : Listening(s)}

\* C39: the connections that have passed the acquire() of the connection
\* semaphore and have not yet disconnected are never more than its capacity
C39_AdmittedWithinCapacity == Cardinality(Admitted) <= ConnCap

\* C39 witness: a disconnect has just resumed a suspended connection, and as
\* many connections as the semaphore has permits are admitted
C39_Witness ==
  /\ coLast.op = "disconnect"
  /\ co.socks[coLast.sock].stage = "ready"
  /\ Cardinality(Admitted) = ConnCap
  /\ co.sem.permits = 0

\* C40: every permit granted to a connection is released when it
\* disconnects, also when it disconnects while suspended in acquire(): once
\* every connection has disconnected no permit is in use and nobody waits
C40_AllGoneAllFree ==
  (\A s \in SockIds : ~co.socks[s].connected) =>
    co.sem.permits = ConnCap /\ Len(co.sem.waitQueue) = 0

\* --------------------------------------------------------- specifications
Init == SemInit /\ MutexInit /\ QueueInit /\ CacheInit /\ LbInit /\ DdInit /\ CoInit

semOthers == <<mutexVars, queueVars, cacheVars, lbVars, ddVars, coVars>>
mutexOthers == <<semVars, queueVars, cacheVars, lbVars, ddVars, coVars>>
queueOthers == <<semVars, mutexVars, cacheVars, lbVars, ddVars, coVars>>
cacheOthers == <<semVars, mutexVars, queueVars, lbVars, ddVars, coVars>>
lbOthers == <<semVars, mutexVars, queueVars, cacheVars, ddVars, coVars>>
ddOthers == <<semVars, mutexVars, queueVars, cacheVars, lbVars, coVars>>
coOthers == <<semVars, mutexVars, queueVars, cacheVars, lbVars, ddVars>>

SemNext ==
  \/ \E c \in Callers : SemAcquire(c) /\ UNCHANGED semOthers
  \/ \E c \in Callers : SemRelease(c) /\ UNCHANGED semOthers
  \/ \E c \in Callers : SemTryAcquire(c) /\ UNCHANGED semOthers

MutexNext ==
  \/ \E c \in Callers : MutexLock(c) /\ UNCHANGED mutexOthers
  \/ \E c \in Callers : MutexLockResume(c) /\ UNCHANGED mutexOthers
  \/ \E c \in Callers : MutexUnlock(c) /\ UNCHANGED mutexOthers

\* sendMessage() in the source only simulates a send and always resolves; its
\* rejection is an input of the model, which is what the catch block handles.
QueueNext ==
  \/ \E p \in Priorities, dt \in {0, 1} :
        Len(qSub) < MaxMsgs /\ QueueSubmit(p, dt) /\ UNCHANGED queueOthers
  \/ \E m \in sending : QueueSendResolved(m) /\ UNCHANGED queueOthers
  \/ \E m \in sending : QueueSendRejected(m) /\ UNCHANGED queueOthers

\* the submissions of the ordering scenario: LOW, URGENT, NORMAL, URGENT at rising
\* timestamps, made to an idle queue or behind one earlier message of any priority
OrderScripts ==
  {<<LOW, URGENT, NORMAL, URGENT>>} \cup
  {<<p>> \o <<LOW, URGENT, NORMAL, URGENT>> : p \in Priorities}

OrderNext ==
  \/ \E p \in Priorities, dt \in {1} :
        /\ \E s \in OrderScripts :
              /\ Len(qSub) < Len(s)
              /\ s[Len(qSub) + 1] = p
              /\ \A i \in DOMAIN qSub : s[i] = qSub[i].priority
        /\ QueueSubmit(p, dt)
        /\ UNCHANGED queueOthers
  \/ \E m \in sending : QueueSendResolved(m) /\ UNCHANGED queueOthers
  \/ \E m \in sending : QueueSendRejected(m) /\ UNCHANGED queueOthers

CacheNext ==
  \/ \E k \in CacheKeys : CacheGet(k) /\ UNCHANGED cacheOthers
  \/ \E k \in CacheKeys, v \in CacheValues : CachePut(k, v) /\ UNCHANGED cacheOthers
  \/ CacheClear /\ UNCHANGED cacheOthers

LbNext ==
  \/ \E id \in WorkerIds, m \in MaxLoads : LbAddWorker(id, m) /\ UNCHANGED lbOthers
  \/ \E id \in WorkerIds : LbRemoveWorker(id) /\ UNCHANGED lbOthers
  \/ LbAssignTask /\ UNCHANGED lbOthers
  \/ \E id \in WorkerIds : LbReleaseTask(id) /\ UNCHANGED lbOthers

DdNext ==
  \/ \E p \in ProcIds, r \in ResIds : DdRequestResource(p, r) /\ UNCHANGED ddOthers
  \/ \E p \in ProcIds, r \in ResIds : DdReleaseResource(p, r) /\ UNCHANGED ddOthers

Members == {<<1, 2>>, <<2, 2, 1>>}
SentContents == {"urgent", "hello"}
SentThreads == {12, 22} \cup GroupThreads
JoinedThreads == {12, AnnouncementThread(1)} \cup GroupThreads
Announced == {"important"}

CoNext ==
  \/ \E s \in SockIds : CoConnection(s) /\ UNCHANGED coOthers
  \/ \E s \in SockIds : CoDisconnect(s) /\ UNCHANGED coOthers
  \/ \E s \in SockIds, u \in UserIds : CoUserOnline(s, u) /\ UNCHANGED coOthers
  \/ \E s \in SockIds, g \in GroupIds, m \in Members :
        CoCreateGroup(s, g, m) /\ UNCHANGED coOthers
  \/ \E s \in SockIds, t \in SentThreads, u \in UserIds, c \in SentContents :
        CoSendMessage(s, t, u, c) /\ UNCHANGED coOthers
  \/ \E s \in SockIds, t \in JoinedThreads : CoJoinThread(s, t) /\ UNCHANGED coOthers
  \/ \E s \in SockIds, c \in Announced : CoBroadcast(s, NoUser, c) /\ UNCHANGED coOthers

SpecSem == Init /\ [][SemNext]_vars
SpecMutex == Init /\ [][MutexNext]_vars
SpecQueue == Init /\ [][QueueNext]_vars
\* every awaited sendMessage() settles: the promise resolves or rejects
QueueSettle ==
  \E m \in sending :
    (QueueSendResolved(m) \/ QueueSendRejected(m)) /\ UNCHANGED queueOthers
SpecQueueLive == SpecQueue /\ WF_vars(QueueSettle)
SpecOrder == Init /\ [][OrderNext]_vars
SpecCache == Init /\ [][CacheNext]_vars
SpecLb == Init /\ [][LbNext]_vars
SpecDd == Init /\ [][DdNext]_vars
SpecCo == Init /\ [][CoNext]_vars
====
